---- MODULE Spec2Model ----
(***************************************************************************)
(* QuorumUX run comparison: title normalisation, Jaccard similarity,       *)
(* two-pass issue matching, variant detection, severity classification     *)
(* and test-infra score adjustment (src/src/commands/compare.ts and        *)
(* src/src/utils/scoring.ts).                                              *)
(*                                                                         *)
(* Representation.  A string whose characters matter (an issue title) is a *)
(* sequence of one-character strings.  A JavaScript number that may be     *)
(* fractional is an exact rational [n |-> numerator, d |-> denominator]    *)
(* with d > 0.  An optional number is <<>> (undefined) or <<v>>.  An       *)
(* optional string is the string "undefined" or the string itself.         *)
(***************************************************************************)
EXTENDS Integers, Sequences, FiniteSets, TLC

\* ------------------------------------------------------------------------
\* Rationals (JavaScript numbers)
\* ------------------------------------------------------------------------

Rat(n, d) == [n |-> n, d |-> d]

RatInt(k) == Rat(k, 1)

RatLt(a, b) == a.n * b.d < b.n * a.d

RatLe(a, b) == a.n * b.d <= b.n * a.d

RatEq(a, b) == a.n * b.d = b.n * a.d

RatSub(a, b) == Rat(a.n * b.d - b.n * a.d, a.d * b.d)

RatAdd(a, b) == Rat(a.n * b.d + b.n * a.d, a.d * b.d)

RatMul(a, b) == Rat(a.n * b.n, a.d * b.d)

\* a / b for b > 0
RatDiv(a, b) == Rat(a.n * b.d, a.d * b.n)

\* Math.round: the nearest integer, a tie going up (floor(x + 1/2))
MathRound(x) == (2 * x.n + x.d) \div (2 * x.d)

undefined == "undefined"

None == <<>>

Some(v) == <<v>>

\* ------------------------------------------------------------------------
\* Title normalisation
\* ------------------------------------------------------------------------

\* \s of the regular expressions, over the characters the titles use
Whitespace == {" ", "\t"}

UpperToLower ==
  [c \in {"A","B","C","D","E","F","G","H","I","J","K","L","M","N","O","P","Q",
          "R","S","T","U","V","W","X","Y","Z"} |->
     CASE c = "A" -> "a" [] c = "B" -> "b" [] c = "C" -> "c" [] c = "D" -> "d"
       [] c = "E" -> "e" [] c = "F" -> "f" [] c = "G" -> "g" [] c = "H" -> "h"
       [] c = "I" -> "i" [] c = "J" -> "j" [] c = "K" -> "k" [] c = "L" -> "l"
       [] c = "M" -> "m" [] c = "N" -> "n" [] c = "O" -> "o" [] c = "P" -> "p"
       [] c = "Q" -> "q" [] c = "R" -> "r" [] c = "S" -> "s" [] c = "T" -> "t"
       [] c = "U" -> "u" [] c = "V" -> "v" [] c = "W" -> "w" [] c = "X" -> "x"
       [] c = "Y" -> "y" [] c = "Z" -> "z"]

\* String.prototype.toLowerCase
toLowerCase(s) ==
  [i \in 1..Len(s) |-> IF s[i] \in DOMAIN UpperToLower THEN UpperToLower[s[i]] ELSE s[i]]

\* first position >= i of s that holds no whitespace (Len(s) + 1 if none)
RECURSIVE SkipSpace(_, _)
SkipSpace(s, i) ==
  IF i <= Len(s) /\ s[i] \in Whitespace THEN SkipSpace(s, i + 1) ELSE i

At(s, i) == IF i >= 1 /\ i <= Len(s) THEN s[i] ELSE ""

\* U+2014 EM DASH, one character of a title (the module text is ASCII)
EmDash == "u2014"

\* title.replace(/^\s*\[?P[012]\]?\s*[:<em dash>-]?\s*/i, ''): every part but
\* P[012] is optional and no two adjacent parts can match the same character,
\* so the greedy match is the only one
StripSeverityPrefix(title) ==
  LET i0 == SkipSpace(title, 1)
      i1 == IF At(title, i0) = "[" THEN i0 + 1 ELSE i0
      hit == At(title, i1) \in {"P", "p"} /\ At(title, i1 + 1) \in {"0", "1", "2"}
      i2 == i1 + 2
      i3 == IF At(title, i2) = "]" THEN i2 + 1 ELSE i2
      i4 == SkipSpace(title, i3)
      i5 == IF At(title, i4) \in {":", EmDash, "-"} THEN i4 + 1 ELSE i4
      i6 == SkipSpace(title, i5)
  IN IF hit THEN SubSeq(title, i6, Len(title)) ELSE title

\* s.split(/\s+/).filter(Boolean): the maximal runs of non-whitespace
RECURSIVE SplitWords(_, _, _, _)
SplitWords(s, i, cur, acc) ==
  IF i > Len(s) THEN (IF cur = <<>> THEN acc ELSE Append(acc, cur))
  ELSE IF s[i] \in Whitespace
       THEN SplitWords(s, i + 1, <<>>, IF cur = <<>> THEN acc ELSE Append(acc, cur))
       ELSE SplitWords(s, i + 1, Append(cur, s[i]), acc)

split(s) == SplitWords(s, 1, <<>>, <<>>)

FILLER_ADVERBS ==
  { <<"c","o","n","s","i","s","t","e","n","t","l","y">>,
    <<"p","e","r","m","a","n","e","n","t","l","y">>,
    <<"c","o","m","p","l","e","t","e","l","y">>,
    <<"i","n","a","p","p","r","o","p","r","i","a","t","e","l","y">>,
    <<"r","e","p","e","a","t","e","d","l","y">>,
    <<"u","n","e","x","p","e","c","t","e","d","l","y">>,
    <<"e","x","c","e","s","s","i","v","e","l","y">>,
    <<"e","x","t","r","e","m","e","l","y">>,
    <<"s","i","g","n","i","f","i","c","a","n","t","l","y">>,
    <<"s","e","v","e","r","e","l","y">>,
    <<"v","e","r","y">>,
    <<"h","i","g","h","l","y">>,
    <<"p","a","r","t","i","c","u","l","a","r","l","y">>,
    <<"n","o","t","a","b","l","y">>,
    <<"s","o","m","e","w","h","a","t">>,
    <<"s","l","i","g","h","t","l","y">>,
    <<"r","e","l","a","t","i","v","e","l","y">>,
    <<"q","u","i","t","e">> }

SYNONYM_MAP ==
  { <<<<"l","a","t","e","n","c","y">>, <<"p","e","r","f","o","r","m","a","n","c","e">>>>,
    <<<<"f","r","e","e","z","e">>, <<"b","l","o","c","k">>>>,
    <<<<"f","r","o","z","e","n">>, <<"b","l","o","c","k">>>>,
    <<<<"s","t","u","c","k">>, <<"b","l","o","c","k">>>>,
    <<<<"i","n","a","c","c","e","s","s","i","b","l","e">>, <<"n","o","t"," ","a","c","c","e","s","s","i","b","l","e">>>>,
    <<<<"n","a","v","i","g","a","t","i","o","n">>, <<"n","a","v">>>>,
    <<<<"o","b","s","c","u","r","e","s">>, <<"o","v","e","r","l","a","p","s">>>>,
    <<<<"e","x","c","e","e","d","s">>, <<"s","l","o","w">>>>,
    <<<<"d","e","l","a","y">>, <<"s","l","o","w">>>>,
    <<<<"i","n","s","u","f","f","i","c","i","e","n","t">>, <<"m","i","s","s","i","n","g">>>>,
    <<<<"t","r","a","c","k","i","n","g">>, <<"a","n","a","l","y","t","i","c","s">>>>,
    <<<<"s","t","e","p","p","e","r">>, <<"i","n","d","i","c","a","t","o","r">>>>,
    <<<<"p","r","o","g","r","e","s","s">>, <<"s","t","e","p">>>> }

\* w, whatever SYNONYM_MAP holds
SynonymOf_Identity(w) == w

\* SYNONYM_MAP[w] ?? w
SynonymOf(w) ==
  IF \E p \in SYNONYM_MAP : p[1] = w
  THEN (CHOOSE p \in SYNONYM_MAP : p[1] = w)[2]
  ELSE w

\* words.join(' ')
RECURSIVE join(_)
join(words) ==
  IF words = <<>> THEN <<>>
  ELSE IF Len(words) = 1 THEN words[1]
  ELSE words[1] \o <<" ">> \o join(Tail(words))

\* String.prototype.trim
RECURSIVE TrimRight(_)
TrimRight(s) ==
  IF s # <<>> /\ s[Len(s)] \in Whitespace THEN TrimRight(SubSeq(s, 1, Len(s) - 1)) ELSE s

trim(s) == TrimRight(SubSeq(s, SkipSpace(s, 1), Len(s)))

\* .map((w) => SYNONYM_MAP[w] ?? w)
MapSynonyms(words) == [i \in 1..Len(words) |-> SynonymOf(words[i])]

normalizeTitle(title) ==
  LET t == toLowerCase(StripSeverityPrefix(title))
      words == split(t)
      kept == SelectSeq(words, LAMBDA w : w \notin FILLER_ADVERBS)
  IN trim(join(MapSynonyms(kept)))

\* new Set(normalizeTitle(t).split(/\s+/).filter(Boolean))
NewSet(words) == {words[i] : i \in 1..Len(words)}

TokenSet(title) == NewSet(split(normalizeTitle(title)))

\* Jaccard word overlap, with the size of the first set for the size of the union
JaccardOfSets_OverFirst(setA, setB) ==
  LET intersection == Cardinality({token \in setA : token \in setB})
  IN IF setA = {} /\ setB = {} THEN RatInt(1)
     ELSE IF setA = {} \/ setB = {} THEN RatInt(0)
     ELSE Rat(intersection, Cardinality(setA))

\* Jaccard word overlap of the two normalised titles, a number in 0.0-1.0
JaccardOfSets(setA, setB) ==
  LET intersection == Cardinality({token \in setA : token \in setB})
  IN IF setA = {} /\ setB = {} THEN RatInt(1)
     ELSE IF setA = {} \/ setB = {} THEN RatInt(0)
     ELSE Rat(intersection, Cardinality(setA) + Cardinality(setB) - intersection)

jaccardSimilarity(a, b) == JaccardOfSets(TokenSet(a), TokenSet(b))

\* ------------------------------------------------------------------------
\* Issue matching
\* ------------------------------------------------------------------------

QUX == <<"Q", "U", "X", "-">>

\* id.startsWith('QUX-')
startsWith(s, prefix) ==
  Len(s) >= Len(prefix) /\ SubSeq(s, 1, Len(prefix)) = prefix

\* a bug: the candidates sorted into rising similarity
RECURSIVE InsertDesc_Ascending(_, _)
InsertDesc_Ascending(sorted, c) ==
  IF sorted = <<>> THEN <<c>>
  ELSE IF RatLt(c.similarity, sorted[1].similarity) THEN <<c>> \o sorted
  ELSE <<sorted[1]>> \o InsertDesc_Ascending(Tail(sorted), c)

\* a bug: a candidate put before the candidates of equal similarity
RECURSIVE InsertDesc_BeforeEqual(_, _)
InsertDesc_BeforeEqual(sorted, c) ==
  IF sorted = <<>> THEN <<c>>
  ELSE IF RatLe(sorted[1].similarity, c.similarity) THEN <<c>> \o sorted
  ELSE <<sorted[1]>> \o InsertDesc_BeforeEqual(Tail(sorted), c)

\* Array.prototype.sort with the comparator (a, b) => b.similarity - a.similarity:
\* a stable sort into non-increasing similarity
RECURSIVE InsertDesc(_, _)
InsertDesc(sorted, c) ==
  IF sorted = <<>> THEN <<c>>
  ELSE IF RatLt(sorted[1].similarity, c.similarity) THEN <<c>> \o sorted
  ELSE <<sorted[1]>> \o InsertDesc(Tail(sorted), c)

RECURSIVE SortDesc(_, _)
SortDesc(cands, acc) ==
  IF cands = <<>> THEN acc
  ELSE SortDesc(Tail(cands), InsertDesc(acc, cands[1]))

\* a bug: the candidates left in generation order
sort_Unsorted(cands) == cands

sort(cands) == SortDesc(cands, <<>>)

\* a bug: the filter left out
FilterUnconsumed_Nothing(issues, consumed) == issues

\* issues.filter((_, i) => !consumed.has(i))
FilterUnconsumed(issues, consumed) ==
  LET idx == SelectSeq([i \in 1..Len(issues) |-> i], LAMBDA i : i \notin consumed)
  IN [k \in 1..Len(idx) |-> issues[idx[k]]]

\* a bug: a current issue taken again although it is matched
RECURSIVE FindSameId_TakenAgain(_, _, _, _)
FindSameId_TakenAgain(currentIssues, matchedCurrent, id, ci) ==
  IF ci > Len(currentIssues) THEN 0
  ELSE IF currentIssues[ci].id = id THEN ci
  ELSE FindSameId_TakenAgain(currentIssues, matchedCurrent, id, ci + 1)

\* the inner loop of pass 1: the first unmatched current issue with the id
RECURSIVE FindSameId(_, _, _, _)
FindSameId(currentIssues, matchedCurrent, id, ci) ==
  IF ci > Len(currentIssues) THEN 0
  ELSE IF ci \in matchedCurrent THEN FindSameId(currentIssues, matchedCurrent, id, ci + 1)
  ELSE IF currentIssues[ci].id = id THEN ci
  ELSE FindSameId(currentIssues, matchedCurrent, id, ci + 1)

\* a bug: pass 1 takes every id
IsStableId_Any(id) == TRUE

\* a bug: the prefix tested in lower case
IsStableId_LowerCase(id) == startsWith(id, <<"q", "u", "x", "-">>)

\* pass 1 considers a baseline issue only if its id is a stable hash
IsStableId(id) == startsWith(id, QUX)

\* Pass 1: exact id match (QUX- prefixed stable hashes)
RECURSIVE ExactIdPass(_, _, _, _)
ExactIdPass(baselineIssues, currentIssues, bi, st) ==
  IF bi > Len(baselineIssues) THEN st
  ELSE IF bi \in st.matchedBaseline
       THEN ExactIdPass(baselineIssues, currentIssues, bi + 1, st)
  ELSE IF ~IsStableId(baselineIssues[bi].id)
       THEN ExactIdPass(baselineIssues, currentIssues, bi + 1, st)
  ELSE LET ci == FindSameId(currentIssues, st.matchedCurrent, baselineIssues[bi].id, 1)
       IN IF ci = 0
          THEN ExactIdPass(baselineIssues, currentIssues, bi + 1, st)
          ELSE ExactIdPass(baselineIssues, currentIssues, bi + 1,
                 [matched |-> Append(st.matched,
                                [baseline |-> baselineIssues[bi],
                                 current |-> currentIssues[ci],
                                 method |-> "exact-id",
                                 confidence |-> None]),
                  matchedBaseline |-> st.matchedBaseline \cup {bi},
                  matchedCurrent |-> st.matchedCurrent \cup {ci}])

\* a bug: the relaxed bound left out
FuzzyAccepts_PrimaryOnly(b, c, sim) == RatLt(Rat(6, 10), sim)

\* a bug: the relaxed bound admitted at exactly 0.4
FuzzyAccepts_Inclusive(b, c, sim) ==
  LET sameCategory == b.category # undefined /\ b.category = c.category
      sameSeverity == b.severity = c.severity
  IN RatLt(Rat(6, 10), sim) \/ (sameCategory /\ sameSeverity /\ RatLe(Rat(4, 10), sim))

\* sim > 0.6 || (sameCategory && sameSeverity && sim > 0.4)
FuzzyAccepts(b, c, sim) ==
  LET sameCategory == b.category # undefined /\ b.category = c.category
      sameSeverity == b.severity = c.severity
  IN RatLt(Rat(6, 10), sim) \/ (sameCategory /\ sameSeverity /\ RatLt(Rat(4, 10), sim))

\* Pass 2, candidate generation: baseline index outer, current index inner
RECURSIVE FuzzyCandidates(_, _, _, _, _, _)
FuzzyCandidates(baselineIssues, currentIssues, st, bi, ci, acc) ==
  IF bi > Len(baselineIssues) THEN acc
  ELSE IF bi \in st.matchedBaseline \/ ci > Len(currentIssues)
       THEN FuzzyCandidates(baselineIssues, currentIssues, st, bi + 1, 1, acc)
  ELSE IF ci \in st.matchedCurrent
       THEN FuzzyCandidates(baselineIssues, currentIssues, st, bi, ci + 1, acc)
  ELSE LET sim == jaccardSimilarity(baselineIssues[bi].title, currentIssues[ci].title)
       IN FuzzyCandidates(baselineIssues, currentIssues, st, bi, ci + 1,
            IF FuzzyAccepts(baselineIssues[bi], currentIssues[ci], sim)
            THEN Append(acc, [bi |-> bi, ci |-> ci, similarity |-> sim])
            ELSE acc)

\* a bug: only the baseline side of a candidate is tested
Consumed_BaselineOnly(c, st) == c.bi \in st.matchedBaseline

\* matchedBaseline.has(bi) || matchedCurrent.has(ci)
Consumed(c, st) == c.bi \in st.matchedBaseline \/ c.ci \in st.matchedCurrent

\* Pass 2, greedy assignment over the sorted candidates
RECURSIVE FuzzyAssign(_, _, _, _)
FuzzyAssign(baselineIssues, currentIssues, cands, st) ==
  IF cands = <<>> THEN st
  ELSE LET c == cands[1]
       IN IF Consumed(c, st)
          THEN FuzzyAssign(baselineIssues, currentIssues, Tail(cands), st)
          ELSE FuzzyAssign(baselineIssues, currentIssues, Tail(cands),
                 [matched |-> Append(st.matched,
                                [baseline |-> baselineIssues[c.bi],
                                 current |-> currentIssues[c.ci],
                                 method |-> "fuzzy",
                                 confidence |-> Some(MathRound(RatMul(c.similarity, RatInt(100))))]),
                  matchedBaseline |-> st.matchedBaseline \cup {c.bi},
                  matchedCurrent |-> st.matchedCurrent \cup {c.ci}])

\* Pass 2 from the state st pass 1 leaves: candidates, sort, assignment
FuzzyPass(baselineIssues, currentIssues, st) ==
  FuzzyAssign(baselineIssues, currentIssues,
    sort(FuzzyCandidates(baselineIssues, currentIssues, st, 1, 1, <<>>)), st)

\* The value returned once both passes have run and left the state st
MatchResult(baselineIssues, currentIssues, st) ==
  [matched |-> st.matched,
   unmatchedBaseline |-> FilterUnconsumed(baselineIssues, st.matchedBaseline),
   unmatchedCurrent |-> FilterUnconsumed(currentIssues, st.matchedCurrent)]

matchIssues(baselineIssues, currentIssues) ==
  MatchResult(baselineIssues, currentIssues,
    FuzzyPass(baselineIssues, currentIssues,
      ExactIdPass(baselineIssues, currentIssues, 1,
        [matched |-> <<>>, matchedBaseline |-> {}, matchedCurrent |-> {}])))

\* ------------------------------------------------------------------------
\* Scoring (src/src/utils/scoring.ts)
\* ------------------------------------------------------------------------

\* Severity weights for the score adjustment
SEVERITY_WEIGHT == [P0 |-> 10, P1 |-> 5, P2 |-> 2]

\* a bug: the discount taken as the share removed, leaving 0.75
TEST_INFRA_DISCOUNT_Removed == Rat(75, 100)

\* Discount factor applied to test-infra issues in the adjusted score (0.25)
TEST_INFRA_DISCOUNT == Rat(25, 100)

\* a bug: the legacy scale ends below 10
normalizeScore_Strict(score) ==
  IF RatLt(score, RatInt(10)) THEN RatMul(score, RatInt(10)) ELSE score

\* score <= 10 is taken to be on the legacy 0-10 scale
normalizeScore(score) ==
  IF RatLe(score, RatInt(10)) THEN RatMul(score, RatInt(10)) ELSE score

\* SEVERITY_WEIGHT[issue.severity] || 0
WeightOf(issue) ==
  IF issue.severity \in DOMAIN SEVERITY_WEIGHT THEN SEVERITY_WEIGHT[issue.severity] ELSE 0

\* a bug: every issue that is not marked 'app' counts as test-infra
IsTestInfra_NotApp(issue) == issue.source # "app"

\* issue.source === 'test-infra'
IsTestInfra(issue) == issue.source = "test-infra"

\* the weight loop: the sum over all issues, or over the test-infra issues only
RECURSIVE SumWeights(_, _)
SumWeights(issues, testInfraOnly) ==
  IF issues = <<>> THEN 0
  ELSE (IF testInfraOnly => IsTestInfra(issues[1]) THEN WeightOf(issues[1]) ELSE 0)
       + SumWeights(Tail(issues), testInfraOnly)

AllIssues(synthesis) ==
  synthesis.consensusIssues \o synthesis.videoOnlyIssues \o synthesis.modelUniqueIssues

calculateAdjustedScore(synthesis) ==
  LET allIssues == AllIssues(synthesis)
      testInfraIssues == SelectSeq(allIssues, IsTestInfra)
      rawScore == normalizeScore(synthesis.overallAssessment.uxScore)
      pointsLost == RatSub(RatInt(100), rawScore)
      totalWeight == SumWeights(allIssues, FALSE)
      testInfraWeight == SumWeights(allIssues, TRUE)
      adjustedTotal == RatAdd(RatInt(totalWeight - testInfraWeight),
                              RatMul(RatInt(testInfraWeight), TEST_INFRA_DISCOUNT))
      adjustedPointsLost == RatMul(pointsLost, RatDiv(adjustedTotal, RatInt(totalWeight)))
  IN IF Len(testInfraIssues) = 0 THEN None
     ELSE IF RatLe(pointsLost, RatInt(0)) THEN Some(rawScore)
     ELSE IF totalWeight = 0 THEN Some(rawScore)
     ELSE Some(RatInt(MathRound(RatSub(RatInt(100), adjustedPointsLost))))

\* ------------------------------------------------------------------------
\* Core comparison (src/src/commands/compare.ts)
\* ------------------------------------------------------------------------

SEVERITY_ORDER == [P0 |-> 0, P1 |-> 1, P2 |-> 2]

\* a bug: the category carried over from every list
CollectOne_KeepsCategory(i, type, ref) ==
  [id |-> i.id, title |-> i.title, severity |-> i.severity, type |-> type,
   source |-> IF i.source = undefined THEN "app" ELSE i.source,
   category |-> i.category,
   ref |-> ref]

\* One CompareIssue of collectIssues.  ref is the identity of the object
\* collectIssues creates: its position in the flattened list.
CollectOne(i, type, ref) ==
  [id |-> i.id, title |-> i.title, severity |-> i.severity, type |-> type,
   source |-> IF i.source = undefined THEN "app" ELSE i.source,
   category |-> IF type = "consensus" THEN i.category ELSE undefined,
   ref |-> ref]

\* Collect all issues of a synthesis into one flat CompareIssue array
collectIssues(synthesis) ==
  LET nc == Len(synthesis.consensusIssues)
      nv == Len(synthesis.videoOnlyIssues)
      nm == Len(synthesis.modelUniqueIssues)
  IN [k \in 1..(nc + nv + nm) |->
        IF k <= nc THEN CollectOne(synthesis.consensusIssues[k], "consensus", k)
        ELSE IF k <= nc + nv THEN CollectOne(synthesis.videoOnlyIssues[k - nc], "video-only", k)
        ELSE CollectOne(synthesis.modelUniqueIssues[k - nc - nv], "model-unique", k)]

\* SEVERITY_ORDER[severity]: the ordinal, or undefined (None) for a key the
\* table does not hold
OrderOf(severity) ==
  IF severity \in DOMAIN SEVERITY_ORDER THEN Some(SEVERITY_ORDER[severity]) ELSE None

\* x > y on two lookups: false when either is undefined
Greater(x, y) == x # None /\ y # None /\ x[1] > y[1]

\* a bug: the two directions exchanged
compareSeverity_Swapped(baseline, current) ==
  IF Greater(OrderOf(current), OrderOf(baseline)) THEN "regressed"
  ELSE IF Greater(OrderOf(baseline), OrderOf(current)) THEN "improved"
  ELSE "unchanged"

\* Direction of the severity change; a higher ordinal is a lower severity
compareSeverity(baseline, current) ==
  IF Greater(OrderOf(current), OrderOf(baseline)) THEN "improved"
  ELSE IF Greater(OrderOf(baseline), OrderOf(current)) THEN "regressed"
  ELSE "unchanged"

\* the number undefined + 1 is
NaN == "NaN"

\* counts[severity]++: one more in a bucket there is, NaN in a bucket there
\* was not (or that holds NaN already)
Increment(counts, severity) ==
  IF severity \in DOMAIN SEVERITY_ORDER
  THEN [counts EXCEPT ![severity] = counts[severity] + 1]
  ELSE [k \in DOMAIN counts \cup {severity} |-> IF k = severity THEN NaN ELSE counts[k]]

\* Count issues by severity across all issue types
RECURSIVE CountInto(_, _)
CountInto(issues, counts) ==
  IF issues = <<>> THEN counts
  ELSE CountInto(Tail(issues), Increment(counts, issues[1].severity))

countSeverities(synthesis) ==
  CountInto(synthesis.modelUniqueIssues,
    CountInto(synthesis.videoOnlyIssues,
      CountInto(synthesis.consensusIssues, [P0 |-> 0, P1 |-> 0, P2 |-> 0])))

\* parts.join('; ')
RECURSIVE joinParts(_)
joinParts(parts) ==
  IF parts = <<>> THEN ""
  ELSE IF Len(parts) = 1 THEN parts[1]
  ELSE parts[1] \o "; " \o joinParts(Tail(parts))

\* a bug: the plural used for every count
Plural_Always(n) == "s"

\* ${n > 1 ? 's' : ''}
Plural(n) == IF n > 1 THEN "s" ELSE ""

\* a bug: the early return left out
NothingChanged_Never(result) == FALSE

\* a bug: the variants left out of the test
NothingChanged_IgnoresVariants(result) ==
  /\ Len(result.resolvedIssues) = 0
  /\ Len(result.newIssues) = 0
  /\ Len(result.regressions) = 0

\* resolvedIssues, newIssues, persistingVariants and regressions are empty
NothingChanged(result) ==
  /\ Len(result.resolvedIssues) = 0
  /\ Len(result.newIssues) = 0
  /\ Len(result.persistingVariants) = 0
  /\ Len(result.regressions) = 0

\* Interpretive context line for the score delta
generateScoreContext(result) ==
  LET resolvedP0s == SelectSeq(result.resolvedIssues, LAMBDA i : i.severity = "P0")
      newP0s == SelectSeq(result.newIssues, LAMBDA i : i.severity = "P0")
      nReg == Len(result.regressions)
      nVar == Len(result.persistingVariants)
      deltaParts ==
        IF RatLt(RatInt(0), result.scoreDelta)
        THEN (IF Len(resolvedP0s) > 0
              THEN <<ToString(Len(resolvedP0s)) \o " P0 issue" \o Plural(Len(resolvedP0s)) \o " resolved">>
              ELSE <<>>)
        ELSE IF RatLt(result.scoreDelta, RatInt(0))
        THEN (IF Len(newP0s) > 0
              THEN <<ToString(Len(newP0s)) \o " new P0 issue" \o Plural(Len(newP0s)) \o " introduced">>
              ELSE <<>>)
             \o (IF nReg > 0
                 THEN <<ToString(nReg) \o " regression" \o Plural(nReg)>>
                 ELSE <<>>)
        ELSE <<>>
      variantParts ==
        IF nVar > 0
        THEN <<ToString(nVar) \o " issue" \o Plural(nVar) \o " reworded but not resolved">>
        ELSE <<>>
  IN IF NothingChanged(result)
     THEN "No meaningful changes between runs"
     ELSE joinParts(deltaParts \o variantParts)

\* a bug: an entry without confidence reported with confidence 100
PersistingEntry_FullConfidence(m) ==
  [baselineId |-> m.baseline.id,
   currentId |-> m.current.id,
   title |-> m.current.title,
   baselineSeverity |-> m.baseline.severity,
   currentSeverity |-> m.current.severity,
   severityChange |-> compareSeverity(m.baseline.severity, m.current.severity),
   matchMethod |-> m.method,
   matchConfidence |-> IF m.confidence = None THEN Some(100) ELSE m.confidence,
   baselineRef |-> m.baseline.ref,
   currentRef |-> m.current.ref]

\* One PersistingIssue.  baselineRef and currentRef name the two matched
\* objects (m.baseline, m.current) the entry is built from.
PersistingEntry(m) ==
  [baselineId |-> m.baseline.id,
   currentId |-> m.current.id,
   title |-> m.current.title,
   baselineSeverity |-> m.baseline.severity,
   currentSeverity |-> m.current.severity,
   severityChange |-> compareSeverity(m.baseline.severity, m.current.severity),
   matchMethod |-> m.method,
   matchConfidence |-> m.confidence,
   baselineRef |-> m.baseline.ref,
   currentRef |-> m.current.ref]

\* a bug: a threshold of 0 taken for a missing one
VariantThresholdOf_ZeroIsMissing(options) ==
  IF options = None \/ RatEq(options[1], Rat(0, 1)) THEN Rat(35, 100) ELSE options[1]

\* a bug: a default of 0.3
VariantThresholdOf_Default30(options) ==
  IF options = None THEN Rat(30, 100) ELSE options[1]

\* options?.variantThreshold ?? 0.35
VariantThresholdOf(options) ==
  IF options = None THEN Rat(35, 100) ELSE options[1]

\* a bug: the threshold excluded
VariantAccepts_Strict(variantThreshold, sim) == RatLt(variantThreshold, sim)

\* sim >= variantThreshold
VariantAccepts(variantThreshold, sim) == RatLe(variantThreshold, sim)

\* Variant candidates: current index outer, baseline index inner
RECURSIVE VariantCandidates(_, _, _, _, _, _)
VariantCandidates(unmatchedBaseline, unmatchedCurrent, variantThreshold, ci, bi, acc) ==
  IF ci > Len(unmatchedCurrent) THEN acc
  ELSE IF bi > Len(unmatchedBaseline)
       THEN VariantCandidates(unmatchedBaseline, unmatchedCurrent, variantThreshold, ci + 1, 1, acc)
  ELSE LET sim == jaccardSimilarity(unmatchedCurrent[ci].title, unmatchedBaseline[bi].title)
       IN VariantCandidates(unmatchedBaseline, unmatchedCurrent, variantThreshold, ci, bi + 1,
            IF VariantAccepts(variantThreshold, sim)
            THEN Append(acc, [bi |-> bi, ci |-> ci, similarity |-> sim])
            ELSE acc)

\* Greedy assignment of the sorted variant candidates
RECURSIVE VariantAssign(_, _, _, _)
VariantAssign(unmatchedBaseline, unmatchedCurrent, cands, st) ==
  IF cands = <<>> THEN st
  ELSE LET c == cands[1]
       IN IF c.bi \in st.variantBaselineIdxs \/ c.ci \in st.variantCurrentIdxs
          THEN VariantAssign(unmatchedBaseline, unmatchedCurrent, Tail(cands), st)
          ELSE VariantAssign(unmatchedBaseline, unmatchedCurrent, Tail(cands),
                 [persistingVariants |-> Append(st.persistingVariants,
                    [issue |-> unmatchedCurrent[c.ci],
                     similarTo |-> unmatchedBaseline[c.bi],
                     similarityScore |-> MathRound(RatMul(c.similarity, RatInt(100)))]),
                  variantBaselineIdxs |-> st.variantBaselineIdxs \cup {c.bi},
                  variantCurrentIdxs |-> st.variantCurrentIdxs \cup {c.ci}])

\* The variant pass over the issues matchIssues left unmatched
VariantPass(unmatchedBaseline, unmatchedCurrent, variantThreshold) ==
  VariantAssign(unmatchedBaseline, unmatchedCurrent,
    sort(VariantCandidates(unmatchedBaseline, unmatchedCurrent, variantThreshold, 1, 1, <<>>)),
    [persistingVariants |-> <<>>, variantBaselineIdxs |-> {}, variantCurrentIdxs |-> {}])

\* matched.map(...): the persisting issues of the matched pairs
PersistingIssuesOf(matched) == [k \in 1..Len(matched) |-> PersistingEntry(matched[k])]

\* a bug: the difference taken the other way round
AdjustedDelta_Reversed(baselineAdj, currentAdj) ==
  IF baselineAdj # None /\ currentAdj # None
  THEN Some(RatSub(baselineAdj[1], currentAdj[1]))
  ELSE None

\* adjustedDelta: defined when both adjusted scores are
AdjustedDelta(baselineAdj, currentAdj) ==
  IF baselineAdj # None /\ currentAdj # None
  THEN Some(RatSub(currentAdj[1], baselineAdj[1]))
  ELSE None

\* The result object before scoreContext is filled in, from the matching m,
\* the persisting issues and the state v the variant pass leaves
BuildResult(baseline, current, m, persistingIssues, v, baselineScore, currentScore) ==
  [scoreDelta |-> RatSub(currentScore, baselineScore),
   baselineScore |-> baselineScore,
   currentScore |-> currentScore,
   adjustedDelta |-> AdjustedDelta(calculateAdjustedScore(baseline),
                                   calculateAdjustedScore(current)),
   baselineReadiness |-> baseline.overallAssessment.launchReadiness,
   currentReadiness |-> current.overallAssessment.launchReadiness,
   resolvedIssues |-> FilterUnconsumed(m.unmatchedBaseline, v.variantBaselineIdxs),
   newIssues |-> FilterUnconsumed(m.unmatchedCurrent, v.variantCurrentIdxs),
   persistingIssues |-> persistingIssues,
   persistingVariants |-> v.persistingVariants,
   regressions |-> SelectSeq(persistingIssues, LAMBDA e : e.severityChange = "regressed"),
   scoreContext |-> "",
   severityDistribution |-> [baseline |-> countSeverities(baseline),
                             current |-> countSeverities(current)]]

\* result.scoreContext = generateScoreContext(result)
WithScoreContext(result) == [result EXCEPT !.scoreContext = generateScoreContext(result)]

\* The comparison once matchIssues has returned m
CompareMatched(baseline, current, options, m) ==
  WithScoreContext(
    BuildResult(baseline, current, m, PersistingIssuesOf(m.matched),
      VariantPass(m.unmatchedBaseline, m.unmatchedCurrent, VariantThresholdOf(options)),
      normalizeScore(baseline.overallAssessment.uxScore),
      normalizeScore(current.overallAssessment.uxScore)))

\* Compare two syntheses and return the structured diff
compareSyntheses(baseline, current, options) ==
  CompareMatched(baseline, current, options,
    matchIssues(collectIssues(baseline), collectIssues(current)))

\* ------------------------------------------------------------------------
\* Inputs
\* ------------------------------------------------------------------------

\* most issues of the baseline snapshot, over its three lists
MaxBaseline == 2

\* most issues of the current snapshot, over its three lists
MaxCurrent == 2

\* Titles.  Normalised token sets: TLoginSlow and TLoginDelay {login, slow};
\* TMobile {login, slow, on, mobile}; TWeb {login, slow, on, web};
\* TLoginWeb {login, web}; TApp {login, slow, app}; TSignup {signup, broken}.
\* Their similarities are 1, 2/3, 3/5, 1/2, 2/5, 1/3, 1/4, 1/5 and 0.
TLoginSlow == <<"l","o","g","i","n"," ","s","l","o","w">>

TLoginDelay == <<"[","P","0","]"," ","L","o","g","i","n"," ","v","e","r","y"," "," ","d","e","l","a","y">>

TMobile == <<"l","o","g","i","n"," ","s","l","o","w"," ","o","n"," ","m","o","b","i","l","e">>

TWeb == <<"L","o","g","i","n"," ","s","l","o","w"," ","o","n"," ","w","e","b">>

TLoginWeb == <<"l","o","g","i","n"," ","w","e","b">>

TApp == <<"P","1",":"," ","l","o","g","i","n"," ","s","l","o","w"," ","a","p","p">>

TSignup == <<"s","i","g","n","u","p"," ","b","r","o","k","e","n">>

IdStable == <<"Q","U","X","-","1","a","2","b","3","c","4","d">>

IdLegacy == <<"U","X","-","0","0","1">>

Lists == <<"consensus", "video-only", "model-unique">>

ListRank(list) == CHOOSE k \in 1..3 : Lists[k] = list

\* One issue of a snapshot as the upstream synthesis writes it, tagged with
\* the list it is in
Raw(list, id, title, severity, category, source) ==
  [list |-> list,
   issue |-> [id |-> id, title |-> title, severity |-> severity,
              source |-> source, category |-> category]]

\* the sequences of at most max tagged issues in list order
TaggedSeqs(choices, max) ==
  { q \in UNION { [1..k -> choices] : k \in 0..max } :
      \A j \in 1..(Len(q) - 1) : ListRank(q[j].list) <= ListRank(q[j + 1].list) }

ListOf(q, list) ==
  LET sel == SelectSeq(q, LAMBDA e : e.list = list)
  IN [k \in 1..Len(sel) |-> sel[k].issue]

Synthesis(q, score, readiness) ==
  [consensusIssues |-> ListOf(q, "consensus"),
   videoOnlyIssues |-> ListOf(q, "video-only"),
   modelUniqueIssues |-> ListOf(q, "model-unique"),
   overallAssessment |-> [uxScore |-> score, launchReadiness |-> readiness]]

\* Baseline issues: a stable id and a legacy id, both baseline titles, a
\* consensus issue without a category, a P0 issue outside the consensus list
BaselineChoices ==
  { Raw("consensus", IdStable, TLoginSlow, "P1", "nav", undefined),
    Raw("consensus", IdLegacy, TMobile, "P1", "nav", undefined),
    Raw("consensus", IdLegacy, TLoginSlow, "P1", undefined, undefined),
    Raw("video-only", IdStable, TMobile, "P0", undefined, undefined) }

\* Current issues.  Against the baseline titles (login slow / login slow on
\* mobile) their similarities are: TSignup 0 / 0, TWeb 1/2 / 3/5,
\* TApp 2/3 / 2/5, TLoginWeb 1/3 / 1/5, TLoginDelay 1 / 1/2.
CurrentChoices ==
  { Raw("consensus", IdStable, TSignup, "P0", "forms", undefined),
    Raw("consensus", IdLegacy, TWeb, "P1", "nav", undefined),
    Raw("consensus", IdLegacy, TApp, "P1", "nav", undefined),
    Raw("consensus", IdLegacy, TLoginWeb, "P0", "nav", undefined),
    Raw("consensus", IdStable, TLoginDelay, "P2", "nav", undefined),
    Raw("model-unique", IdStable, TWeb, "P1", undefined, undefined) }

\* Issues of the scoring runs: every severity, with and without a source,
\* in every list
ScoreChoices ==
  { Raw(Lists[k], IdLegacy, TLoginSlow, sev, undefined, src) :
      k \in 1..3, sev \in {"P0", "P1", "P2"}, src \in {undefined, "app", "test-infra"} }

\* uxScore values on the legacy 0-10 scale (0, 5, 7.5, 9.94, 10) and on the
\* 0-100 scale (11, 50, 99.4, 100)
Scores ==
  {RatInt(0), RatInt(5), Rat(75, 10), Rat(994, 100), RatInt(10),
   RatInt(11), RatInt(50), Rat(994, 10), RatInt(100)}

\* options of compareSyntheses: none, or a variantThreshold in [0, 1].  At
\* 0 every pair qualifies; 1/2 is the similarity of several pairs of titles.
Options == {None, Some(Rat(0, 1)), Some(Rat(5, 10))}

\* ------------------------------------------------------------------------
\* State machine: the exported functions applied to drawn inputs
\* ------------------------------------------------------------------------

VARIABLES
  baseline,   \* the baseline Synthesis
  current,    \* the current Synthesis
  options,    \* the CompareOptions of the last compareSyntheses call
  pc,         \* "input", or the function that has returned
  matchOut,   \* the value matchIssues returned
  result,     \* the value compareSyntheses returned
  adjusted,   \* the value calculateAdjustedScore(baseline) returned
  args,       \* the arguments of a call of one of the other functions
  ret         \* the value that call returned

vars == <<baseline, current, options, pc, matchOut, result, adjusted, args, ret>>

Init ==
  /\ \E q \in TaggedSeqs(BaselineChoices, MaxBaseline) :
       baseline = Synthesis(q, RatInt(75), "ready-with-caveats")
  /\ \E q \in TaggedSeqs(CurrentChoices, MaxCurrent) :
       current = Synthesis(q, RatInt(9), "ready")
  /\ options = None
  /\ pc = "input"
  /\ matchOut = None
  /\ result = None
  /\ adjusted = None
  /\ args = <<>>
  /\ ret = None

\* matchIssues(collectIssues(baseline), collectIssues(current))
MatchIssues ==
  /\ pc = "input"
  /\ matchOut' = matchIssues(collectIssues(baseline), collectIssues(current))
  /\ pc' = "matchIssues"
  /\ UNCHANGED <<baseline, current, options, result, adjusted, args, ret>>

\* compareSyntheses(baseline, current, baselineId, currentId, options)
CompareSyntheses ==
  /\ pc = "input"
  /\ \E o \in Options :
       /\ options' = o
       /\ result' = compareSyntheses(baseline, current, o)
  /\ pc' = "compareSyntheses"
  /\ UNCHANGED <<baseline, current, matchOut, adjusted, args, ret>>

Next == MatchIssues \/ CompareSyntheses

Spec == Init /\ [][Next]_vars

\* The scoring runs: one snapshot, handed to calculateAdjustedScore
InitScore ==
  /\ \E q \in TaggedSeqs(ScoreChoices, MaxBaseline) :
       \E score \in Scores :
         baseline = Synthesis(q, score, "ready-with-caveats")
  /\ current = Synthesis(<<>>, RatInt(75), "ready")
  /\ options = None
  /\ pc = "input"
  /\ matchOut = None
  /\ result = None
  /\ adjusted = None
  /\ args = <<>>
  /\ ret = None

\* calculateAdjustedScore(baseline)
CalculateAdjustedScore ==
  /\ pc = "input"
  /\ adjusted' = calculateAdjustedScore(baseline)
  /\ pc' = "calculateAdjustedScore"
  /\ UNCHANGED <<baseline, current, options, matchOut, result, args, ret>>

NextScore == CalculateAdjustedScore

SpecScore == InitScore /\ [][NextScore]_vars

\* Issues of the score-delta runs: one application issue and one test-infra
\* issue with the same title
DeltaChoices ==
  { Raw("consensus", IdLegacy, TLoginSlow, "P0", "nav", undefined),
    Raw("consensus", IdLegacy, TLoginSlow, "P2", "nav", "test-infra") }

\* uxScore values of the score-delta runs: legacy scale (7.5, 9) and 0-100
DeltaScores == {Rat(75, 10), RatInt(9), RatInt(50)}

\* The score-delta runs: two snapshots with their own scores, with and
\* without test-infra issues
InitDelta ==
  /\ \E q \in TaggedSeqs(DeltaChoices, MaxBaseline), score \in DeltaScores :
       baseline = Synthesis(q, score, "ready-with-caveats")
  /\ \E q \in TaggedSeqs(DeltaChoices, MaxCurrent), score \in DeltaScores :
       current = Synthesis(q, score, "ready")
  /\ options = None
  /\ pc = "input"
  /\ matchOut = None
  /\ result = None
  /\ adjusted = None
  /\ args = <<>>
  /\ ret = None

NextDelta == CompareSyntheses

SpecDelta == InitDelta /\ [][NextDelta]_vars

\* The snapshot variables of a run that calls none of the snapshot functions
NoSnapshots ==
  /\ baseline = Synthesis(<<>>, RatInt(0), "ready")
  /\ current = Synthesis(<<>>, RatInt(0), "ready")
  /\ options = None
  /\ matchOut = None
  /\ result = None
  /\ adjusted = None

\* most issues in each list of a result handed to generateScoreContext
MaxContextIssues == 2

\* the issue lists with at most max entries, each P0 or P1
ContextIssues(max) ==
  UNION { [1..k -> { [id |-> IdLegacy, title |-> TLoginSlow, severity |-> sev,
                      type |-> "consensus"] : sev \in {"P0", "P1"} }] : k \in 0..max }

\* a regressed persisting issue, and one whose severity is unchanged
ContextRegressed ==
  [baselineId |-> IdLegacy, currentId |-> IdLegacy, title |-> TLoginSlow,
   baselineSeverity |-> "P2", currentSeverity |-> "P0",
   severityChange |-> "regressed", matchMethod |-> "fuzzy", matchConfidence |-> Some(100)]

ContextUnchanged ==
  [ContextRegressed EXCEPT !.currentSeverity = "P2", !.severityChange = "unchanged"]

\* a variant record
ContextVariant ==
  [issue |-> [id |-> IdLegacy, title |-> TWeb, severity |-> "P0", type |-> "consensus"],
   similarTo |-> [id |-> IdLegacy, title |-> TLoginSlow, severity |-> "P0", type |-> "consensus"],
   similarityScore |-> 50]

\* The generateScoreContext runs: a CompareResult with any sign of
\* scoreDelta and any sizes of the lists the function reads
InitContext ==
  /\ NoSnapshots
  /\ \E scoreDelta \in {RatInt(0 - 5), RatInt(0), RatInt(5)},
        resolvedIssues \in ContextIssues(MaxContextIssues),
        newIssues \in ContextIssues(MaxContextIssues),
        nReg \in 0..MaxContextIssues,
        nVar \in 0..MaxContextIssues,
        others \in {<<>>, <<ContextUnchanged>>} :
       args = << [scoreDelta |-> scoreDelta,
                  resolvedIssues |-> resolvedIssues,
                  newIssues |-> newIssues,
                  persistingIssues |-> [k \in 1..nReg |-> ContextRegressed] \o others,
                  persistingVariants |-> [k \in 1..nVar |-> ContextVariant],
                  regressions |-> [k \in 1..nReg |-> ContextRegressed],
                  scoreContext |-> ""] >>
  /\ ret = None
  /\ pc = "input"

\* generateScoreContext(result)
GenerateScoreContext ==
  /\ pc = "input"
  /\ ret' = generateScoreContext(args[1])
  /\ pc' = "generateScoreContext"
  /\ UNCHANGED <<baseline, current, options, matchOut, result, adjusted, args>>

NextContext == GenerateScoreContext

SpecContext == InitContext /\ [][NextContext]_vars

\* most tenths in a score handed to normalizeScore: scores 0.0, 0.1, .. 100.0
MaxScoreTenths == 1000

\* The normalizeScore runs: one score, normalised, and the result normalised
\* again when it is above 10
InitNormalize ==
  /\ NoSnapshots
  /\ \E k \in 0..MaxScoreTenths : args = <<Rat(k, 10)>>
  /\ ret = None
  /\ pc = "input"

\* normalizeScore(score)
NormalizeScore ==
  /\ pc = "input"
  /\ ret' = normalizeScore(args[1])
  /\ pc' = "normalizeScore"
  /\ UNCHANGED <<baseline, current, options, matchOut, result, adjusted, args>>

\* normalizeScore(normalizeScore(score)), for a first result above 10
NormalizeScoreAgain ==
  /\ pc = "normalizeScore"
  /\ RatLt(RatInt(10), ret)
  /\ args' = <<ret>>
  /\ ret' = normalizeScore(ret)
  /\ pc' = "normalizeScoreAgain"
  /\ UNCHANGED <<baseline, current, options, matchOut, result, adjusted>>

NextNormalize == NormalizeScore \/ NormalizeScoreAgain

SpecNormalize == InitNormalize /\ [][NextNormalize]_vars

\* ------------------------------------------------------------------------
\* Stable ids (src/pipeline/report.ts)
\* ------------------------------------------------------------------------

\* A 32-bit word of SHA-256 is a pair <<high, low>> of 16-bit halves.
Pow2 ==
  <<1, 2, 4, 8, 16, 32, 64, 128, 256, 512, 1024, 2048, 4096, 8192, 16384,
    32768, 65536>>

\* 2^n, for n in 0..16
TwoTo(n) == Pow2[n + 1]

RECURSIVE Xor16(_, _)
Xor16(a, b) ==
  IF a = 0 THEN b
  ELSE IF b = 0 THEN a
  ELSE ((a + b) % 2) + 2 * Xor16(a \div 2, b \div 2)

RECURSIVE And16(_, _)
And16(a, b) ==
  IF a = 0 \/ b = 0 THEN 0
  ELSE ((a % 2) * (b % 2)) + 2 * And16(a \div 2, b \div 2)

Xor(x, y) == <<Xor16(x[1], y[1]), Xor16(x[2], y[2])>>

Xor3(x, y, z) == Xor(Xor(x, y), z)

And(x, y) == <<And16(x[1], y[1]), And16(x[2], y[2])>>

Not(x) == <<65535 - x[1], 65535 - x[2]>>

\* the word of two sums of halves, carries folded in, modulo 2^32
WordOfSums(high, low) == <<(high + (low \div 65536)) % 65536, low % 65536>>

Add(x, y) == WordOfSums(x[1] + y[1], x[2] + y[2])

\* rotation to the right by n bits, n in 0..31
RotrLow(high, low, n) ==
  <<(high \div TwoTo(n)) + (low % TwoTo(n)) * TwoTo(16 - n),
    (low \div TwoTo(n)) + (high % TwoTo(n)) * TwoTo(16 - n)>>

Rotr(x, n) == IF n < 16 THEN RotrLow(x[1], x[2], n) ELSE RotrLow(x[2], x[1], n - 16)

\* shift to the right by n bits, n in 0..15
Shr(x, n) ==
  <<x[1] \div TwoTo(n), (x[2] \div TwoTo(n)) + (x[1] % TwoTo(n)) * TwoTo(16 - n)>>

BigSigma0(x) == Xor3(Rotr(x, 2), Rotr(x, 13), Rotr(x, 22))

BigSigma1(x) == Xor3(Rotr(x, 6), Rotr(x, 11), Rotr(x, 25))

SmallSigma0(x) == Xor3(Rotr(x, 7), Rotr(x, 18), Shr(x, 3))

SmallSigma1(x) == Xor3(Rotr(x, 17), Rotr(x, 19), Shr(x, 10))

Ch(x, y, z) == Xor(And(x, y), And(Not(x), z))

Maj(x, y, z) == Xor3(And(x, y), And(x, z), And(y, z))

\* the first 32 bits of the fractional parts of the cube roots of the first
\* 64 primes, as 16-bit halves
Sha256K ==
  <<<<17034, 12184>>, <<28983, 17553>>, <<46528, 64463>>, <<59829, 56229>>,
    <<14678, 49755>>, <<23025, 4593>>, <<37439, 33444>>, <<43804, 24277>>,
    <<55303, 43672>>, <<4739, 23297>>, <<9265, 34238>>, <<21772, 32195>>,
    <<29374, 23924>>, <<32990, 45566>>, <<39900, 1703>>, <<49563, 61812>>,
    <<58523, 27073>>, <<61374, 18310>>, <<4033, 40390>>, <<9228, 41420>>,
    <<11753, 11375>>, <<19060, 33962>>, <<23728, 43484>>, <<30457, 35034>>,
    <<38974, 20818>>, <<43057, 50797>>, <<45059, 10184>>, <<48985, 32711>>,
    <<50912, 3059>>, <<54695, 37191>>, <<1738, 25425>>, <<5161, 10599>>,
    <<10167, 2693>>, <<11803, 8504>>, <<19756, 28156>>, <<21304, 3347>>,
    <<25866, 29524>>, <<30314, 2747>>, <<33218, 51502>>, <<37490, 11397>>,
    <<41663, 59553>>, <<43034, 26187>>, <<49739, 35696>>, <<51052, 20899>>,
    <<53650, 59417>>, <<54937, 1572>>, <<62478, 13701>>, <<4202, 41072>>,
    <<6564, 49430>>, <<7735, 27656>>, <<10056, 30540>>, <<13488, 48309>>,
    <<14620, 3251>>, <<20184, 43594>>, <<23452, 51791>>, <<26670, 28659>>,
    <<29839, 33518>>, <<30885, 25455>>, <<33992, 30740>>, <<36039, 520>>,
    <<37054, 65530>>, <<42064, 27883>>, <<48889, 41975>>, <<50801, 30962>>>>

\* the initial hash value
Sha256H0 ==
  <<<<27145, 58983>>, <<47975, 44677>>, <<15470, 62322>>, <<42319, 62778>>,
    <<20750, 21119>>, <<39685, 26764>>, <<8067, 55723>>, <<23520, 52505>>>>

\* UTF-8 code of the characters the ids are made from (all one byte)
CharCode ==
  (" " :> 32) @@ ("-" :> 45) @@ ("0" :> 48) @@ ("1" :> 49) @@ ("2" :> 50) @@
  ("3" :> 51) @@ ("4" :> 52) @@ ("5" :> 53) @@ ("6" :> 54) @@ ("7" :> 55) @@
  ("8" :> 56) @@ ("9" :> 57) @@ (":" :> 58) @@ ("a" :> 97) @@ ("b" :> 98) @@
  ("c" :> 99) @@ ("d" :> 100) @@ ("e" :> 101) @@ ("f" :> 102) @@ ("g" :>
  103) @@ ("h" :> 104) @@ ("i" :> 105) @@ ("j" :> 106) @@ ("k" :> 107) @@
  ("l" :> 108) @@ ("m" :> 109) @@ ("n" :> 110) @@ ("o" :> 111) @@ ("p" :>
  112) @@ ("q" :> 113) @@ ("r" :> 114) @@ ("s" :> 115) @@ ("t" :> 116) @@
  ("u" :> 117) @@ ("v" :> 118) @@ ("w" :> 119) @@ ("x" :> 120) @@ ("y" :>
  121) @@ ("z" :> 122)

\* the message schedule: 16 words of the block extended to 64
RECURSIVE Expand(_)
Expand(w) ==
  IF Len(w) >= 64 THEN w
  ELSE Expand(Append(w, Add(Add(SmallSigma1(w[Len(w) - 1]), w[Len(w) - 6]),
                            Add(SmallSigma0(w[Len(w) - 14]), w[Len(w) - 15]))))

\* the working variables a..h after one round, from its two temporaries
RoundWith(s, t1, t2) ==
  <<Add(t1, t2), s[1], s[2], s[3], Add(s[4], t1), s[5], s[6], s[7]>>

Round(s, k, w) ==
  RoundWith(s,
            Add(Add(Add(s[8], BigSigma1(s[5])), Ch(s[5], s[6], s[7])), Add(k, w)),
            Add(BigSigma0(s[1]), Maj(s[1], s[2], s[3])))

\* the 64 rounds from round t on; the working variables s are the eight of the
\* round before
RECURSIVE Compress(_, _, _)
Compress(s, w, t) ==
  IF Len(s) = 8 /\ t <= 64 THEN Compress(Round(s, Sha256K[t], w[t]), w, t + 1) ELSE s

AddState(h, s) ==
  <<Add(h[1], s[1]), Add(h[2], s[2]), Add(h[3], s[3]), Add(h[4], s[4]),
    Add(h[5], s[5]), Add(h[6], s[6]), Add(h[7], s[7]), Add(h[8], s[8])>>

\* the 16 big-endian words of block b of the padded message
BlockWords(p, b) ==
  [i \in 1..16 |->
     <<p[64 * (b - 1) + 4 * (i - 1) + 1] * 256 + p[64 * (b - 1) + 4 * (i - 1) + 2],
       p[64 * (b - 1) + 4 * (i - 1) + 3] * 256 + p[64 * (b - 1) + 4 * (i - 1) + 4]>>]

RECURSIVE Blocks(_, _, _)
Blocks(p, b, h) ==
  IF 64 * b > Len(p) THEN h
  ELSE Blocks(p, b + 1, AddState(h, Compress(h, Expand(BlockWords(p, b) \o <<>>), 1)))

RECURSIVE ZeroPad(_)
ZeroPad(bytes) == IF Len(bytes) % 64 = 56 THEN bytes ELSE ZeroPad(Append(bytes, 0))

\* the length of the message in bits, as 8 big-endian bytes
LengthBytes(n) ==
  <<0, 0, 0, 0, (n \div 16777216) % 256, (n \div 65536) % 256, (n \div 256) % 256,
    n % 256>>

Pad(bytes) == ZeroPad(Append(bytes, 128)) \o LengthBytes(8 * Len(bytes))

\* createHash('sha256').update(text): the eight words of the digest
sha256(text) == Blocks(Pad([i \in 1..Len(text) |-> CharCode[text[i]]] \o <<>>), 1, Sha256H0)

HexDigits == <<"0","1","2","3","4","5","6","7","8","9","a","b","c","d","e","f">>

Hex16(x) ==
  <<HexDigits[(x \div 4096) + 1], HexDigits[((x \div 256) % 16) + 1],
    HexDigits[((x \div 16) % 16) + 1], HexDigits[(x % 16) + 1]>>

RECURSIVE HexOfWords(_, _)
HexOfWords(h, i) ==
  IF i > Len(h) THEN <<>> ELSE Hex16(h[i][1]) \o Hex16(h[i][2]) \o HexOfWords(h, i + 1)

\* .digest('hex')
digest(h) == HexOfWords(h, 1)

\* `${title.toLowerCase().trim()}:${discriminator.toLowerCase().trim()}`, without the
\* trim of the discriminator
StableIdText_NoTrim(title, discriminator) ==
  trim(toLowerCase(title)) \o <<":">> \o toLowerCase(discriminator)

\* `${title.toLowerCase().trim()}:${discriminator.toLowerCase().trim()}`
StableIdText(title, discriminator) ==
  trim(toLowerCase(title)) \o <<":">> \o trim(toLowerCase(discriminator))

generateStableId(title, discriminator) ==
  QUX \o SubSeq(digest(sha256(StableIdText(title, discriminator))), 1, 8)

\* The calls of generateStableId that are compared: <<title, discriminator>>
StableIdInputs ==
  {<<<<"S","l","o","w"," ","l","o","a","d","i","n","g">>, <<"p","e","r","f","o","r","m","a","n","c","e">>>>,
   <<<<" "," ","s","l","o","w"," ","L","O","A","D","I","N","G"," ">>, <<" ","P","e","r","f","o","r","m","a","n","c","e">>>>,
   <<<<"S","l","o","w"," ","l","o","a","d","i","n","g">>, <<"v","i","d","e","o">>>>,
   <<<<"S","l","o","w"," ","l","o","a","d","i","n","g">>, <<"l","i","z">>>>,
   <<<<"S","l","o","w"," ","l","o","a","d","i","n","g">>, <<"B","K","H","N"," ">>>>,
   <<<<"L","o","g","i","n"," ","b","u","t","t","o","n"," ","b","r","o","k","e","n">>, <<"f","u","n","c","t","i","o","n","a","l">>>>,
   <<<<"S","i","g","n","u","p"," ","f","o","r","m"," ","m","i","s","s","i","n","g">>, <<"f","u","n","c","t","i","o","n","a","l">>>>}

\* The generateStableId runs: two calls, one after the other
InitStableId ==
  /\ NoSnapshots
  /\ \E x \in StableIdInputs : \E y \in StableIdInputs : args = x \o y
  /\ ret = None
  /\ pc = "input"

\* generateStableId(title, discriminator), the first call
GenerateStableId ==
  /\ pc = "input"
  /\ ret' = <<generateStableId(args[1], args[2])>>
  /\ pc' = "generateStableId"
  /\ UNCHANGED <<baseline, current, options, matchOut, result, adjusted, args>>

\* generateStableId(title, discriminator), the second call
GenerateStableIdAgain ==
  /\ pc = "generateStableId"
  /\ ret' = Append(ret, generateStableId(args[3], args[4]))
  /\ pc' = "generateStableIdAgain"
  /\ UNCHANGED <<baseline, current, options, matchOut, result, adjusted, args>>

NextStableId == GenerateStableId \/ GenerateStableIdAgain

SpecStableId == InitStableId /\ [][NextStableId]_vars

\* ------------------------------------------------------------------------
\* jaccardSimilarity on its own
\* ------------------------------------------------------------------------

\* The titles handed to jaccardSimilarity: empty and blank titles, titles that
\* normalise to nothing, titles with repeated words, synonyms and fillers
JaccardTitles ==
  {<<>>, <<" "," ">>, <<"[","P","0","]">>, <<"v","e","r","y">>, <<"s","l","o","w">>, <<"l","o","g","i","n"," ","s","l","o","w">>,
   <<"L","o","g","i","n"," "," ","d","e","l","a","y">>, <<"l","o","g","i","n"," ","s","l","o","w"," ","l","o","g","i","n">>, <<"P","1",":"," ","s","i","g","n","u","p"," ","b","r","o","k","e","n">>,
   <<"l","o","g","i","n"," ","b","r","o","k","e","n">>, <<"i","n","a","c","c","e","s","s","i","b","l","e"," ","n","a","v","i","g","a","t","i","o","n">>}

\* The jaccardSimilarity runs: a pair of titles, compared in both orders
InitJaccard ==
  /\ NoSnapshots
  /\ \E a \in JaccardTitles : \E b \in JaccardTitles : args = <<a, b>>
  /\ ret = None
  /\ pc = "input"

\* jaccardSimilarity(a, b)
JaccardSimilarity ==
  /\ pc = "input"
  /\ ret' = <<jaccardSimilarity(args[1], args[2])>>
  /\ pc' = "jaccardSimilarity"
  /\ UNCHANGED <<baseline, current, options, matchOut, result, adjusted, args>>

\* jaccardSimilarity(b, a)
JaccardSimilarityReversed ==
  /\ pc = "jaccardSimilarity"
  /\ ret' = Append(ret, jaccardSimilarity(args[2], args[1]))
  /\ pc' = "jaccardSimilarityReversed"
  /\ UNCHANGED <<baseline, current, options, matchOut, result, adjusted, args>>

NextJaccard == JaccardSimilarity \/ JaccardSimilarityReversed

SpecJaccard == InitJaccard /\ [][NextJaccard]_vars

\* ------------------------------------------------------------------------
\* normalizeTitle on its own
\* ------------------------------------------------------------------------

\* Wordings of one title each: the titles of one set differ only in case,
\* whitespace, filler adverbs and the choice between synonyms
TitleWordings ==
  <<{<<"l","o","g","i","n"," ","s","l","o","w">>, <<"L","o","g","i","n"," "," ","D","E","L","A","Y"," ">>, <<"l","o","g","i","n"," ","e","x","t","r","e","m","e","l","y"," ","s","l","o","w">>,
     <<"l","o","g","i","n"," ","e","x","c","e","e","d","s"," ","q","u","i","t","e">>},
    {<<"n","o","t"," ","a","c","c","e","s","s","i","b","l","e"," ","n","a","v">>, <<"I","n","a","c","c","e","s","s","i","b","l","e"," ","n","a","v","i","g","a","t","i","o","n">>,
     <<"i","n","a","c","c","e","s","s","i","b","l","e"," "," ","c","o","m","p","l","e","t","e","l","y"," ","n","a","v">>},
    {<<>>, <<" ">>, <<"V","e","r","y">>}>>

\* Severity markers put in front of a wording (<<>>: none)
SeverityMarkers ==
  {<<>>, <<"[","P","0","]"," ">>, <<"p","1",":"," ">>, <<"P","2","-">>, <<"[","p","0","]"," ",EmDash," "," ">>}

\* Filler adverbs put in front of the marker (<<>>: none)
LeadingFillers == {<<>>, <<"v","e","r","y"," ">>}

\* the titles of wording set k
TitlesOf(k) ==
  {lead \o marker \o wording :
     lead \in LeadingFillers, marker \in SeverityMarkers, wording \in TitleWordings[k]}

\* The normalizeTitle runs: two titles of one wording set
InitTitles ==
  /\ NoSnapshots
  /\ \E k \in 1..Len(TitleWordings) :
       \E a \in TitlesOf(k) : \E b \in TitlesOf(k) : args = <<a, b>>
  /\ ret = None
  /\ pc = "input"

\* normalizeTitle(a), normalizeTitle(b) and jaccardSimilarity(a, b)
NormalizeTitles ==
  /\ pc = "input"
  /\ ret' = <<normalizeTitle(args[1]), normalizeTitle(args[2]),
              jaccardSimilarity(args[1], args[2])>>
  /\ pc' = "normalizeTitle"
  /\ UNCHANGED <<baseline, current, options, matchOut, result, adjusted, args>>

NextTitles == NormalizeTitles

SpecTitles == InitTitles /\ [][NextTitles]_vars

\* ------------------------------------------------------------------------
\* Repeated and interleaved comparisons of one pair of snapshots
\* ------------------------------------------------------------------------

RepeatBaselineChoices ==
  { Raw("consensus", IdStable, TLoginSlow, "P1", "nav", undefined),
    Raw("video-only", IdStable, TMobile, "P0", undefined, undefined) }

RepeatCurrentChoices ==
  { Raw("consensus", IdLegacy, TApp, "P1", "nav", undefined),
    Raw("consensus", IdStable, TLoginDelay, "P2", "nav", undefined),
    Raw("model-unique", IdStable, TWeb, "P1", undefined, undefined) }

InitRepeat ==
  /\ \E q \in TaggedSeqs(RepeatBaselineChoices, MaxBaseline) :
       baseline = Synthesis(q, RatInt(75), "ready-with-caveats")
  /\ \E q \in TaggedSeqs(RepeatCurrentChoices, MaxCurrent) :
       current = Synthesis(q, RatInt(9), "ready")
  /\ options = None
  /\ pc = "input"
  /\ matchOut = None
  /\ result = None
  /\ adjusted = None
  /\ args = <<>>
  /\ ret = None

\* what the invocation before this one was and returned
Returned == Some([call |-> pc, options |-> options, matchOut |-> matchOut, result |-> result])

\* a second invocation, matchIssues, on the same pair of snapshots
MatchIssuesAgain ==
  /\ pc \in {"matchIssues", "compareSyntheses"}
  /\ ret' = Returned
  /\ matchOut' = matchIssues(collectIssues(baseline), collectIssues(current))
  /\ pc' = "matchIssuesAgain"
  /\ UNCHANGED <<baseline, current, options, result, adjusted, args>>

\* a second invocation that takes its baseline's consensus issues out of the
\* snapshot as it goes through them
CompareSynthesesAgain_Consuming ==
  /\ pc \in {"matchIssues", "compareSyntheses"}
  /\ ret' = Returned
  /\ \E o \in Options :
       /\ options' = o
       /\ result' = compareSyntheses(baseline, current, o)
  /\ baseline' = [baseline EXCEPT !.consensusIssues = <<>>]
  /\ pc' = "compareSynthesesAgain"
  /\ UNCHANGED <<current, matchOut, adjusted, args>>

\* a second invocation, compareSyntheses, on the same pair of snapshots
CompareSynthesesAgain ==
  /\ pc \in {"matchIssues", "compareSyntheses"}
  /\ ret' = Returned
  /\ \E o \in Options :
       /\ options' = o
       /\ result' = compareSyntheses(baseline, current, o)
  /\ pc' = "compareSynthesesAgain"
  /\ UNCHANGED <<baseline, current, matchOut, adjusted, args>>

NextRepeat == MatchIssues \/ CompareSyntheses \/ MatchIssuesAgain \/ CompareSynthesesAgain

SpecRepeat == InitRepeat /\ [][NextRepeat]_vars

\* ------------------------------------------------------------------------
\* Snapshots with an issue that has no severity
\* ------------------------------------------------------------------------

MissingChoices ==
  { Raw("consensus", IdLegacy, TLoginSlow, undefined, "nav", "test-infra"),
    Raw("consensus", IdLegacy, TLoginSlow, "P1", "nav", undefined),
    Raw("video-only", IdLegacy, TMobile, undefined, undefined, undefined) }

InitMissing ==
  /\ \E q \in TaggedSeqs(MissingChoices, MaxBaseline) :
       baseline = Synthesis(q, RatInt(75), "ready-with-caveats")
  /\ \E q \in TaggedSeqs(MissingChoices, MaxCurrent) :
       current = Synthesis(q, RatInt(9), "ready")
  /\ options = None
  /\ pc = "input"
  /\ matchOut = None
  /\ result = None
  /\ adjusted = None
  /\ args = <<>>
  /\ ret = None

NextMissing == CompareSyntheses \/ CalculateAdjustedScore

SpecMissing == InitMissing /\ [][NextMissing]_vars

\* ------------------------------------------------------------------------
\* The command line (runCompare)
\* ------------------------------------------------------------------------

Digits == {"0", "1", "2", "3", "4", "5", "6", "7", "8", "9"}

\* first position >= i of text that holds no decimal digit
RECURSIVE ScanDigits(_, _)
ScanDigits(text, i) ==
  IF i <= Len(text) /\ text[i] \in Digits THEN ScanDigits(text, i + 1) ELSE i

\* the number the digits text[i..j-1] write (0 for none)
RECURSIVE NatOf(_, _, _)
NatOf(text, i, j) ==
  IF j <= i THEN 0 ELSE 10 * NatOf(text, i, j - 1) + (CharCode[text[j - 1]] - 48)

RECURSIVE Pow10(_)
Pow10(k) == IF k = 0 THEN 1 ELSE 10 * Pow10(k - 1)

\* the value of mantissa n with fracLen digits behind the point, and of the
\* exponent part at position i if there is a whole one
ParseExponent(text, sign, n, fracLen, i) ==
  LET j == IF At(text, i + 1) \in {"+", "-"} THEN i + 2 ELSE i + 1
      k == ScanDigits(text, j)
      e == IF At(text, i) \in {"e", "E"} /\ k > j
           THEN (IF At(text, i + 1) = "-" THEN 0 - NatOf(text, j, k) ELSE NatOf(text, j, k))
           ELSE 0
  IN Some(Rat(sign * n * (IF e > fracLen THEN Pow10(e - fracLen) ELSE 1),
              IF e < fracLen THEN Pow10(fracLen - e) ELSE 1))

\* the mantissa: integer digits text[i1..i2-1], fraction digits up to i3 - 1
ParseMantissa(text, sign, i1, i2, i3) ==
  IF (i2 - i1) + (IF i3 > i2 THEN i3 - i2 - 1 ELSE 0) = 0 THEN None
  ELSE ParseExponent(text, sign,
         NatOf(text, i1, i2) * Pow10(IF i3 > i2 THEN i3 - i2 - 1 ELSE 0)
           + NatOf(text, i2 + 1, i3),
         IF i3 > i2 THEN i3 - i2 - 1 ELSE 0, i3)

ParseDigits(text, sign, i1, i2) ==
  ParseMantissa(text, sign, i1, i2,
    IF At(text, i2) = "." THEN ScanDigits(text, i2 + 1) ELSE i2)

\* the text from position i1 on, behind the sign; Infinity is n/0
ParseUnsigned(text, sign, i1) ==
  IF i1 + 7 <= Len(text) /\ SubSeq(text, i1, i1 + 7) = <<"I","n","f","i","n","i","t","y">>
  THEN Some(Rat(sign, 0))
  ELSE ParseDigits(text, sign, i1, ScanDigits(text, i1))

ParseSigned(text, i0) ==
  ParseUnsigned(text, IF At(text, i0) = "-" THEN 0 - 1 ELSE 1,
                IF At(text, i0) \in {"+", "-"} THEN i0 + 1 ELSE i0)

\* parseFloat: the number written by the longest prefix of the text that is a
\* decimal literal, leading whitespace skipped; NaN (None) if there is none
parseFloat(text) == ParseSigned(text, SkipSpace(text, 1))

\* args[i], and String(undefined) behind the end of the array
ArgAt(argv, i) == IF i <= Len(argv) THEN argv[i] ELSE <<"u","n","d","e","f","i","n","e","d">>

\* a bug: no upper limit
Rejected_NoUpperLimit(v) == v = None \/ RatLt(v[1], RatInt(0))

\* isNaN(variantThreshold) || variantThreshold < 0 || variantThreshold > 1
Rejected(v) == v = None \/ RatLt(v[1], RatInt(0)) \/ RatLt(RatInt(1), v[1])

ThresholdMessage == "--variant-threshold must be a number between 0 and 1"

UsageMessage ==
  "Usage: quorumux compare [--json] [--variant-threshold <0-1>] <baseline-dir> <current-dir>"

RECURSIVE ParseArgs(_, _, _)

\* the branch of --variant-threshold at args[i - 1], its value v parsed
TakeThreshold(argv, i, st, v) ==
  IF Rejected(v)
  THEN [st EXCEPT !.variantThreshold = v, !.exit = Some(1), !.logged = ThresholdMessage]
  ELSE ParseArgs(argv, i + 1, [st EXCEPT !.variantThreshold = v])

\* the loop over args, from index i on
ParseArgs(argv, i, st) ==
  IF i > Len(argv) THEN st
  ELSE IF argv[i] = <<"-","-","j","s","o","n">>
       THEN ParseArgs(argv, i + 1, [st EXCEPT !.jsonFlag = TRUE])
  ELSE IF argv[i] = <<"-","-","v","a","r","i","a","n","t","-","t","h","r","e","s","h","o","l","d">>
       THEN TakeThreshold(argv, i + 1, st, parseFloat(ArgAt(argv, i + 1)))
  ELSE ParseArgs(argv, i + 1, [st EXCEPT !.positionalArgs = Append(@, argv[i])])

\* How a run ended: exit status, error logged, number of synthesis files
\* loaded, the options compareSyntheses was invoked with (None: not invoked),
\* its result, and what was printed
Outcome(status, logged, loaded, invoked, compared, printed) ==
  [status |-> status, logged |-> logged, loaded |-> loaded, invoked |-> invoked,
   compared |-> compared, printed |-> printed]

\* runCompare once the arguments are parsed; a file is None when loadJson
\* returns null
AfterParse(st, baselineFile, currentFile) ==
  IF st.exit # None THEN Outcome(1, st.logged, 0, None, None, "nothing")
  ELSE IF Len(st.positionalArgs) < 2 THEN Outcome(1, UsageMessage, 0, None, None, "nothing")
  ELSE IF baselineFile = None
       THEN Outcome(1, "Baseline synthesis not found", 1, None, None, "nothing")
  ELSE IF currentFile = None
       THEN Outcome(1, "Current synthesis not found", 2, None, None, "nothing")
  ELSE Outcome(0, "", 2, Some(st.variantThreshold),
               Some(compareSyntheses(baselineFile[1], currentFile[1], st.variantThreshold)),
               IF st.jsonFlag THEN "json" ELSE "report")

runCompare(argv, baselineFile, currentFile) ==
  AfterParse(ParseArgs(argv, 1,
               [jsonFlag |-> FALSE, variantThreshold |-> None, positionalArgs |-> <<>>,
                exit |-> None, logged |-> ""]),
             baselineFile, currentFile)

\* Values written behind --variant-threshold
ThresholdTexts ==
  {<<"0",".","5">>, <<"0">>, <<"1">>, <<".","2","5">>, <<"1","e","-","1">>, <<"1",".","5">>, <<"-","0",".","1">>,
   <<"2">>, <<"I","n","f","i","n","i","t","y">>, <<"a","b","c">>, <<>>, <<"-","-","j","s","o","n">>, <<"0",".","5","a","b","c">>,
   <<"1","x">>}

DirA == <<"a">>

DirB == <<"b">>

\* Command lines: without the option, with it in front of and between the
\* directories, and with it last and no value behind it
CommandLines ==
  {<<DirA, DirB>>, <<<<"-","-","j","s","o","n">>, DirA, DirB>>, <<DirA>>,
   <<DirA, DirB, <<"-","-","v","a","r","i","a","n","t","-","t","h","r","e","s","h","o","l","d">>>>}
  \cup {<<<<"-","-","v","a","r","i","a","n","t","-","t","h","r","e","s","h","o","l","d">>, v, DirA, DirB>> : v \in ThresholdTexts}
  \cup {<<DirA, <<"-","-","v","a","r","i","a","n","t","-","t","h","r","e","s","h","o","l","d">>, v, DirB, <<"-","-","j","s","o","n">>>> : v \in ThresholdTexts}

\* reports/synthesis.json of the two directories, where there is one
BaselineFiles ==
  {None,
   Some(Synthesis(<<Raw("consensus", IdLegacy, TLoginSlow, "P1", "nav", undefined)>>,
                  RatInt(75), "ready-with-caveats"))}

CurrentFiles ==
  {None,
   Some(Synthesis(<<Raw("consensus", IdLegacy, TWeb, "P1", "nav", undefined)>>,
                  RatInt(9), "ready"))}

\* The runCompare runs: a command line and the files its directories hold
InitCommand ==
  /\ NoSnapshots
  /\ \E argv \in CommandLines : \E b \in BaselineFiles : \E c \in CurrentFiles :
       args = <<argv, b, c>>
  /\ ret = None
  /\ pc = "input"

\* runCompare(args)
RunCompare ==
  /\ pc = "input"
  /\ ret' = runCompare(args[1], args[2], args[3])
  /\ pc' = "runCompare"
  /\ UNCHANGED <<baseline, current, options, matchOut, result, adjusted, args>>

NextCommand == RunCompare

SpecCommand == InitCommand /\ [][NextCommand]_vars

\* ------------------------------------------------------------------------
\* Comparisons with ties, repeated ids and crossing pairs
\* ------------------------------------------------------------------------

TLogin == <<"l","o","g","i","n">>

TSignupOnly == <<"s","i","g","n","u","p">>

\* Baseline issues: two legacy issues of one id, a stable id in the consensus
\* list and the same stable id in the video-only list, a model-unique issue
\* that carries a category
GreedyBaselineChoices ==
  { Raw("consensus", IdLegacy, TLoginSlow, "P1", "nav", undefined),
    Raw("consensus", IdLegacy, TSignup, "P1", "nav", undefined),
    Raw("consensus", IdStable, TLoginSlow, "P0", "nav", undefined),
    Raw("video-only", IdStable, TSignup, "P1", undefined, undefined),
    Raw("model-unique", IdLegacy, TLoginSlow, "P1", "nav", undefined) }

\* Current issues.  Similarities to 'login slow' / 'signup broken':
\* 'signup' 0 / 1/2, 'login' 1/2 / 0, 'signup broken' 0 / 1, 'login slow' 1 / 0.
GreedyCurrentChoices ==
  { Raw("consensus", IdLegacy, TSignupOnly, "P2", "nav", undefined),
    Raw("consensus", IdLegacy, TLogin, "P1", "nav", undefined),
    Raw("consensus", IdLegacy, TSignup, "P0", "nav", undefined),
    Raw("consensus", IdStable, TLoginSlow, "P1", "forms", undefined),
    Raw("video-only", IdStable, TLogin, "P1", undefined, undefined) }

GreedyOptions == {None, Some(Rat(0, 1)), Some(Rat(7, 10))}

InitGreedy ==
  /\ \E q \in TaggedSeqs(GreedyBaselineChoices, MaxBaseline) :
       baseline = Synthesis(q, RatInt(75), "ready-with-caveats")
  /\ \E q \in TaggedSeqs(GreedyCurrentChoices, MaxCurrent) :
       current = Synthesis(q, RatInt(9), "ready")
  /\ options = None
  /\ pc = "input"
  /\ matchOut = None
  /\ result = None
  /\ adjusted = None
  /\ args = <<>>
  /\ ret = None

\* compareSyntheses(baseline, current, baselineId, currentId, options)
CompareWithOptions ==
  /\ pc = "input"
  /\ \E o \in GreedyOptions :
       /\ options' = o
       /\ result' = compareSyntheses(baseline, current, o)
  /\ pc' = "compareSyntheses"
  /\ UNCHANGED <<baseline, current, matchOut, adjusted, args, ret>>

NextGreedy == MatchIssues \/ CompareWithOptions

SpecGreedy == InitGreedy /\ [][NextGreedy]_vars

\* ------------------------------------------------------------------------
\* Properties of calculateAdjustedScore (checked under SpecScore)
\* ------------------------------------------------------------------------

Scored == pc = "calculateAdjustedScore"

\* the issues of the three lists, by list and position
IssueSlots(synthesis) ==
  { <<"c", k>> : k \in 1..Len(synthesis.consensusIssues) }
  \cup { <<"v", k>> : k \in 1..Len(synthesis.videoOnlyIssues) }
  \cup { <<"m", k>> : k \in 1..Len(synthesis.modelUniqueIssues) }

IssueAt(synthesis, slot) ==
  IF slot[1] = "c" THEN synthesis.consensusIssues[slot[2]]
  ELSE IF slot[1] = "v" THEN synthesis.videoOnlyIssues[slot[2]]
  ELSE synthesis.modelUniqueIssues[slot[2]]

TestInfraSlots(synthesis) ==
  { sl \in IssueSlots(synthesis) : IssueAt(synthesis, sl).source = "test-infra" }

SlotsOfSeverity(synthesis, slots, sev) ==
  Cardinality({ sl \in slots : IssueAt(synthesis, sl).severity = sev })

\* 10 per P0, 5 per P1, 2 per P2
WeightOfSlots(synthesis, slots) ==
  10 * SlotsOfSeverity(synthesis, slots, "P0")
  + 5 * SlotsOfSeverity(synthesis, slots, "P1")
  + 2 * SlotsOfSeverity(synthesis, slots, "P2")

\* the raw score on the 0-100 scale
RawOf(synthesis) ==
  LET score == synthesis.overallAssessment.uxScore
  IN IF score.n <= 10 * score.d THEN Rat(10 * score.n, score.d) ELSE score

PointsLostOf(synthesis) == RatSub(RatInt(100), RawOf(synthesis))

\* C8: when the snapshot has a test-infra issue and pointsLost > 0, the
\* adjusted score is at least the normalised raw score and at most 100.
C8_DiscountNeverLowers ==
  (Scored /\ TestInfraSlots(baseline) # {} /\ PointsLostOf(baseline).n > 0)
    => /\ adjusted # None
       /\ RatLe(RawOf(baseline), adjusted[1])
       /\ RatLe(adjusted[1], RatInt(100))

\* C9: calculateAdjustedScore returns undefined exactly when no issue of the
\* three lists has source test-infra, and a number otherwise.
C9_UndefinedIffNoTestInfra ==
  Scored => (adjusted = None <=> TestInfraSlots(baseline) = {})

\* C9 witness: a snapshot with issues, none of them test-infra, scored undefined
C9_Witness ==
  /\ Scored
  /\ IssueSlots(baseline) # {}
  /\ TestInfraSlots(baseline) = {}
  /\ adjusted = None

\* 100 - pointsLost * ((total - testInfra) + testInfra / 4) / total, rounded,
\* over one common denominator
ExpectedAdjusted(synthesis) ==
  LET total == WeightOfSlots(synthesis, IssueSlots(synthesis))
      testInfra == WeightOfSlots(synthesis, TestInfraSlots(synthesis))
      lost == PointsLostOf(synthesis)
  IN MathRound(Rat(400 * total * lost.d - lost.n * (4 * total - 3 * testInfra),
                   4 * total * lost.d))

\* C10: with a test-infra issue present the result is the raw score when
\* pointsLost <= 0 and otherwise round(100 - pointsLost * ((totalWeight -
\* testInfraWeight) + 0.25 * testInfraWeight) / totalWeight) with the weights
\* P0=10, P1=5, P2=2; when every issue is test-infra that is
\* round(100 - 0.25 * pointsLost).
C10_AdjustedFormula ==
  (Scored /\ TestInfraSlots(baseline) # {})
    => /\ adjusted # None
       /\ PointsLostOf(baseline).n <= 0 => adjusted[1] = RawOf(baseline)
       /\ PointsLostOf(baseline).n > 0 =>
            /\ adjusted[1] = RatInt(ExpectedAdjusted(baseline))
            /\ TestInfraSlots(baseline) = IssueSlots(baseline) =>
                 adjusted[1] = RatInt(MathRound(
                   RatSub(RatInt(100), RatDiv(PointsLostOf(baseline), RatInt(4)))))

\* C10 witness: app and test-infra issues together, points lost, discounted
C10_Witness ==
  /\ Scored
  /\ TestInfraSlots(baseline) # {}
  /\ TestInfraSlots(baseline) # IssueSlots(baseline)
  /\ PointsLostOf(baseline).n > 0
  /\ adjusted # None
  /\ RatLt(RawOf(baseline), adjusted[1])

\* ------------------------------------------------------------------------
\* Properties of matchIssues and compareSyntheses (checked under Spec)
\* ------------------------------------------------------------------------

Matched == pc = "matchIssues"

Compared == pc = "compareSyntheses"

\* the two flattened issue lists the operations work on
BaselineIssues == collectIssues(baseline)

CurrentIssues == collectIssues(current)

\* the set of values of a sequence
Range(seq) == {seq[k] : k \in 1..Len(seq)}

\* every value of the sequence occurs once and the values are exactly 1..n
EachOnce(refs, n) == Len(refs) = n /\ Range(refs) = 1..n

\* The positions of the baseline issues reported by a comparison, bucket
\* after bucket: persistingIssues, persistingVariants, resolvedIssues
BaselineRefsReported(r) ==
  [k \in 1..Len(r.persistingIssues) |-> r.persistingIssues[k].baselineRef]
    \o [k \in 1..Len(r.persistingVariants) |-> r.persistingVariants[k].similarTo.ref]
    \o [k \in 1..Len(r.resolvedIssues) |-> r.resolvedIssues[k].ref]

\* The positions of the current issues reported by a comparison:
\* persistingIssues, persistingVariants, newIssues
CurrentRefsReported(r) ==
  [k \in 1..Len(r.persistingIssues) |-> r.persistingIssues[k].currentRef]
    \o [k \in 1..Len(r.persistingVariants) |-> r.persistingVariants[k].issue.ref]
    \o [k \in 1..Len(r.newIssues) |-> r.newIssues[k].ref]

\* the sum of a severity distribution
SumOfCounts(counts) == counts.P0 + counts.P1 + counts.P2

\* C1: compareSyntheses conserves and partitions the issues.  Every issue of
\* the flattened baseline lands, by position, in exactly one of
\* persistingIssues, persistingVariants and resolvedIssues, and every issue
\* of the flattened current snapshot in exactly one of persistingIssues,
\* persistingVariants and newIssues; the bucket sizes add up to the lengths
\* of the two lists, duplicates by id or title included.
C1_ConservationAndPartition ==
  Compared =>
    /\ EachOnce(BaselineRefsReported(result), Len(BaselineIssues))
    /\ EachOnce(CurrentRefsReported(result), Len(CurrentIssues))
    /\ Len(result.persistingIssues) + Len(result.persistingVariants)
         + Len(result.resolvedIssues) = Len(BaselineIssues)
    /\ Len(result.persistingIssues) + Len(result.persistingVariants)
         + Len(result.newIssues) = Len(CurrentIssues)
    /\ SumOfCounts(result.severityDistribution.baseline) = Len(BaselineIssues)
    /\ SumOfCounts(result.severityDistribution.current) = Len(CurrentIssues)
    /\ \A k \in 1..Len(result.resolvedIssues) :
         result.resolvedIssues[k] = BaselineIssues[result.resolvedIssues[k].ref]
    /\ \A k \in 1..Len(result.newIssues) :
         result.newIssues[k] = CurrentIssues[result.newIssues[k].ref]

\* two baseline issues with one id and one title, the first persisting and
\* the second resolved, next to a current issue that is new
C1_Witness ==
  /\ Compared
  /\ \E p \in Range(result.persistingIssues), r \in Range(result.resolvedIssues) :
       /\ BaselineIssues[p.baselineRef].id = r.id
       /\ BaselineIssues[p.baselineRef].title = r.title
  /\ result.newIssues # <<>>

\* the positions of the matched baseline and current issues
MatchedBaselineRefs(m) == [k \in 1..Len(m.matched) |-> m.matched[k].baseline.ref]

MatchedCurrentRefs(m) == [k \in 1..Len(m.matched) |-> m.matched[k].current.ref]

\* no value of the sequence occurs twice
NoRepeat(refs) == \A j, k \in 1..Len(refs) : j # k => refs[j] # refs[k]

\* C2: matchIssues is one-to-one.  No baseline issue and no current issue
\* occurs in more than one matched pair, and unmatchedBaseline and
\* unmatchedCurrent are exactly the issues whose positions no pair uses, in
\* their original order.
C2_OneToOne ==
  Matched =>
    /\ NoRepeat(MatchedBaselineRefs(matchOut))
    /\ NoRepeat(MatchedCurrentRefs(matchOut))
    /\ \A k \in 1..Len(matchOut.matched) :
         /\ matchOut.matched[k].baseline = BaselineIssues[matchOut.matched[k].baseline.ref]
         /\ matchOut.matched[k].current = CurrentIssues[matchOut.matched[k].current.ref]
    /\ matchOut.unmatchedBaseline =
         SelectSeq(BaselineIssues, LAMBDA i : i.ref \notin Range(MatchedBaselineRefs(matchOut)))
    /\ matchOut.unmatchedCurrent =
         SelectSeq(CurrentIssues, LAMBDA i : i.ref \notin Range(MatchedCurrentRefs(matchOut)))

\* a baseline issue is left unmatched although its title equals, token for
\* token, that of a current issue: the current issue is in another pair
C2_Witness ==
  /\ Matched
  /\ \E u \in Range(matchOut.unmatchedBaseline), k \in 1..Len(matchOut.matched) :
       /\ matchOut.matched[k].method = "fuzzy"
       /\ TokenSet(u.title) = TokenSet(matchOut.matched[k].current.title)
  /\ matchOut.unmatchedCurrent # <<>>

\* the pair of a matching that holds the baseline issue at position ref
PairsOfBaseline(m, ref) == {k \in 1..Len(m.matched) : m.matched[k].baseline.ref = ref}

\* the current issues of the id that pass 1 gives to baseline issues before
\* position ref: the exact-id pairs whose baseline issue comes earlier
TakenBefore(m, id, ref) ==
  {m.matched[k].current.ref : k \in
     {j \in 1..Len(m.matched) : /\ m.matched[j].method = "exact-id"
                                /\ m.matched[j].baseline.id = id
                                /\ m.matched[j].baseline.ref < ref}}

\* the positions of the current issues with the id
CurrentRefsOfId(id) == {c.ref : c \in {x \in Range(CurrentIssues) : x.id = id}}

\* the baseline issue b is in an exact-id pair with a current issue of its id
PairedByExactId(m, b) ==
  \E k \in PairsOfBaseline(m, b.ref) :
    /\ m.matched[k].method = "exact-id"
    /\ m.matched[k].current.id = b.id

\* C3 as stated: whenever a baseline issue and a current issue share a
\* stable-hash id ("QUX-" prefix), matchIssues pairs that baseline issue
\* with a current issue of that id by exact-id, whatever the titles,
\* categories and severities are.
C3_SharedIdAlwaysPaired ==
  Matched =>
    \A b \in Range(BaselineIssues), c \in Range(CurrentIssues) :
      (startsWith(b.id, QUX) /\ b.id = c.id) => PairedByExactId(matchOut, b)

\* C3 amended: whenever a baseline issue and a current issue share a
\* stable-hash id, matchIssues pairs that baseline issue with a current
\* issue of that id by exact-id, whatever the titles, categories and
\* severities are, unless every current issue of that id is already paired
\* by exact-id with an earlier baseline issue of the same id; the pair of
\* an exact-id match always shares one "QUX-" id.
C3_SharedIdPairedWhileAvailable ==
  Matched =>
    /\ \A b \in Range(BaselineIssues), c \in Range(CurrentIssues) :
         (startsWith(b.id, QUX) /\ b.id = c.id)
           => \/ PairedByExactId(matchOut, b)
              \/ CurrentRefsOfId(b.id) \subseteq TakenBefore(matchOut, b.id, b.ref)
    /\ \A k \in 1..Len(matchOut.matched) :
         matchOut.matched[k].method = "exact-id"
           => /\ startsWith(matchOut.matched[k].baseline.id, QUX)
              /\ matchOut.matched[k].baseline.id = matchOut.matched[k].current.id

\* an exact-id pair whose titles share no token and whose severities and
\* categories differ
C3_Witness ==
  /\ Matched
  /\ \E k \in 1..Len(matchOut.matched) :
       /\ matchOut.matched[k].method = "exact-id"
       /\ TokenSet(matchOut.matched[k].baseline.title)
            \cap TokenSet(matchOut.matched[k].current.title) = {}
       /\ matchOut.matched[k].baseline.severity # matchOut.matched[k].current.severity
       /\ matchOut.matched[k].baseline.category # matchOut.matched[k].current.category

\* similarity of the titles of two issues, and its place against a bound
\* given as a fraction num/den
SimOf(b, c) == jaccardSimilarity(b.title, c.title)

SimAbove(b, c, num, den) ==
  LET sim == SimOf(b, c)
  IN sim.n * den > num * sim.d

\* category and severity both agree: a defined baseline category equal to
\* the current one, and equal severities
Agree(b, c) ==
  /\ b.category # undefined
  /\ b.category = c.category
  /\ b.severity = c.severity

\* every fuzzy pair is above 0.6, or above 0.4 with agreeing metadata
FuzzyPairsJustified(m) ==
  \A k \in 1..Len(m.matched) :
    m.matched[k].method = "fuzzy" =>
      \/ SimAbove(m.matched[k].baseline, m.matched[k].current, 6, 10)
      \/ /\ SimAbove(m.matched[k].baseline, m.matched[k].current, 4, 10)
         /\ Agree(m.matched[k].baseline, m.matched[k].current)

\* the inputs are one baseline issue and one current issue whose
\* similarity s satisfies 0.4 < s <= 0.6
LonePairInRelaxedBand ==
  /\ Len(BaselineIssues) = 1
  /\ Len(CurrentIssues) = 1
  /\ SimAbove(BaselineIssues[1], CurrentIssues[1], 4, 10)
  /\ ~SimAbove(BaselineIssues[1], CurrentIssues[1], 6, 10)

\* both issues of the lone pair are returned unmatched
LonePairUnmatched(m) ==
  /\ m.matched = <<>>
  /\ m.unmatchedBaseline = BaselineIssues
  /\ m.unmatchedCurrent = CurrentIssues

\* C4 as stated: every fuzzy pair has similarity > 0.6, or similarity > 0.4
\* with a defined baseline category equal to the current category and equal
\* severities; a lone pair with 0.4 < similarity <= 0.6 is matched when
\* category and severity both agree and is left in unmatchedBaseline and
\* unmatchedCurrent when either differs.
C4_RelaxedBandDecidedByMetadata ==
  Matched =>
    /\ FuzzyPairsJustified(matchOut)
    /\ LonePairInRelaxedBand =>
         IF Agree(BaselineIssues[1], CurrentIssues[1])
         THEN Len(matchOut.matched) = 1
         ELSE LonePairUnmatched(matchOut)

\* pass 1 pairs the two issues: a shared id with the "QUX-" prefix
SharesStableId(b, c) == startsWith(b.id, QUX) /\ b.id = c.id

\* C4 amended: every fuzzy pair has similarity > 0.6, or similarity > 0.4
\* with a defined baseline category equal to the current category and equal
\* severities; a lone pair with 0.4 < similarity <= 0.6 that does not share
\* a "QUX-" id is matched, by fuzzy, when category and severity both agree
\* and is left in unmatchedBaseline and unmatchedCurrent when either
\* differs; a lone pair that shares a "QUX-" id is matched by exact-id
\* whatever its similarity and metadata.
C4_RelaxedBandDecidedAfterExactId ==
  Matched =>
    /\ FuzzyPairsJustified(matchOut)
    /\ (LonePairInRelaxedBand /\ ~SharesStableId(BaselineIssues[1], CurrentIssues[1])) =>
         IF Agree(BaselineIssues[1], CurrentIssues[1])
         THEN Len(matchOut.matched) = 1 /\ matchOut.matched[1].method = "fuzzy"
         ELSE LonePairUnmatched(matchOut)
    /\ (LonePairInRelaxedBand /\ SharesStableId(BaselineIssues[1], CurrentIssues[1])) =>
         Len(matchOut.matched) = 1 /\ matchOut.matched[1].method = "exact-id"

\* a lone pair at similarity 0.6 exactly, matched by fuzzy because category
\* and severity agree
C4_Witness ==
  /\ Matched
  /\ LonePairInRelaxedBand
  /\ SimOf(BaselineIssues[1], CurrentIssues[1]).n * 10 = 6 * SimOf(BaselineIssues[1], CurrentIssues[1]).d
  /\ Agree(BaselineIssues[1], CurrentIssues[1])
  /\ Len(matchOut.matched) = 1
  /\ matchOut.matched[1].method = "fuzzy"

\* the variant threshold in force: the option, or 0.35 when it is absent
ThresholdInForce == IF options = None THEN Rat(35, 100) ELSE options[1]

\* the similarity of two issues is at least the threshold in force
AtLeastThreshold(b, c) ==
  LET sim == SimOf(b, c)
  IN sim.n * ThresholdInForce.d >= ThresholdInForce.n * sim.d

\* round(similarity * 100), halves rounded up
Percent(b, c) ==
  LET sim == SimOf(b, c)
  IN (200 * sim.n + sim.d) \div (2 * sim.d)

\* what matchIssues returns for the two snapshots of the comparison
MatchOfInputs == matchIssues(BaselineIssues, CurrentIssues)

\* C5: every persistingVariants record pairs one current issue and one
\* baseline issue that matchIssues both left unmatched, whose similarity is
\* at least variantThreshold (0.35 when the option is absent, the bound
\* included), with similarityScore = round(similarity * 100); no baseline
\* issue and no current issue occurs in two variant records.
C5_VariantsAreUnmatchedAndSimilar ==
  Compared =>
    /\ LET m == MatchOfInputs
       IN \A k \in 1..Len(result.persistingVariants) :
            LET v == result.persistingVariants[k]
            IN /\ v.issue \in Range(m.unmatchedCurrent)
               /\ v.similarTo \in Range(m.unmatchedBaseline)
               /\ AtLeastThreshold(v.similarTo, v.issue)
               /\ v.similarityScore = Percent(v.similarTo, v.issue)
    /\ NoRepeat([k \in 1..Len(result.persistingVariants) |->
                   result.persistingVariants[k].similarTo.ref])
    /\ NoRepeat([k \in 1..Len(result.persistingVariants) |->
                   result.persistingVariants[k].issue.ref])

\* a variant whose similarity equals the threshold 0.5 of the options, next
\* to a second baseline issue that is as similar and is not a variant
C5_Witness ==
  /\ Compared
  /\ options = Some(Rat(5, 10))
  /\ \E v \in Range(result.persistingVariants), r \in Range(result.resolvedIssues) :
       /\ v.similarityScore = 50
       /\ SimOf(v.similarTo, v.issue).n * 2 = SimOf(v.similarTo, v.issue).d
       /\ AtLeastThreshold(r, v.issue)

\* C6: in every result of compareSyntheses no issue of resolvedIssues and
\* issue of newIssues have jaccardSimilarity >= variantThreshold: a reworded
\* issue is never reported as both resolved and new.
C6_NoSimilarResolvedAndNew ==
  Compared =>
    \A r \in Range(result.resolvedIssues), n \in Range(result.newIssues) :
      ~AtLeastThreshold(r, n)

\* a reworded issue reported as a variant while another baseline issue is
\* resolved and another current issue is new
C6_Witness ==
  /\ Compared
  /\ result.persistingVariants # <<>>
  /\ result.resolvedIssues # <<>>
  /\ result.newIssues # <<>>
  /\ \E v \in Range(result.persistingVariants) : v.similarityScore > 0

\* the ordinal of a severity
Ordinal(severity) ==
  CASE severity = "P0" -> 0
    [] severity = "P1" -> 1
    [] severity = "P2" -> 2

\* the classification of a severity pair by ordinals
ChangeByOrdinals(baselineSeverity, currentSeverity) ==
  IF Ordinal(currentSeverity) < Ordinal(baselineSeverity) THEN "regressed"
  ELSE IF Ordinal(currentSeverity) > Ordinal(baselineSeverity) THEN "improved"
  ELSE "unchanged"

\* C7: for every pair matched by matchIssues, severityChange is regressed
\* iff ordinal(current) < ordinal(baseline), improved iff greater and
\* unchanged iff equal, with P0=0, P1=1, P2=2; regressions holds exactly
\* the persistingIssues entries classified regressed, and a
\* persistingVariants pair never contributes to regressions even when its
\* severity worsened.
C7_SeverityChangeAndRegressions ==
  Compared =>
    /\ LET m == MatchOfInputs
       IN /\ Len(result.persistingIssues) = Len(m.matched)
          /\ \A k \in 1..Len(result.persistingIssues) :
               LET e == result.persistingIssues[k]
                   p == m.matched[k]
               IN /\ e.baselineRef = p.baseline.ref
                  /\ e.currentRef = p.current.ref
                  /\ e.baselineSeverity = p.baseline.severity
                  /\ e.currentSeverity = p.current.severity
                  /\ e.severityChange =
                       ChangeByOrdinals(p.baseline.severity, p.current.severity)
    /\ result.regressions =
         SelectSeq(result.persistingIssues,
           LAMBDA e : Ordinal(e.currentSeverity) < Ordinal(e.baselineSeverity))
    /\ \A v \in Range(result.persistingVariants), e \in Range(result.regressions) :
         e.baselineRef # v.similarTo.ref /\ e.currentRef # v.issue.ref

\* one matched pair regressed and listed in regressions, and one variant
\* pair whose severity worsened and which is not listed
C7_Witness ==
  /\ Compared
  /\ Len(result.regressions) = 1
  /\ \E e \in Range(result.persistingIssues) : e.severityChange = "regressed"
  /\ \E v \in Range(result.persistingVariants) :
       Ordinal(v.issue.severity) < Ordinal(v.similarTo.severity)

\* ------------------------------------------------------------------------
\* Properties of normalizeScore (checked under SpecNormalize)
\* ------------------------------------------------------------------------

\* the score s = args[1] handed to normalizeScore lies in [0, 100]
ScoreInRange(s) == 0 <= s.n /\ s.n <= 100 * s.d

\* C11: normalizeScore(s) returns 10*s when s <= 10 and s unchanged when
\* s > 10; for every s in [0,100] the result lies in [0,100]; re-applying
\* normalizeScore to a result that is greater than 10 leaves it unchanged.
C11_NormalizeScore ==
  /\ pc = "normalizeScore" =>
       /\ (args[1].n <= 10 * args[1].d) => ret.n * args[1].d = 10 * args[1].n * ret.d
       /\ (args[1].n > 10 * args[1].d) => ret = args[1]
       /\ ScoreInRange(args[1]) => ScoreInRange(ret)
  /\ pc = "normalizeScoreAgain" => ret = args[1]

\* the legacy score 7.5 has become 75, and 75 normalised again is 75
C11_Witness ==
  /\ pc = "normalizeScoreAgain"
  /\ args[1].n = 75 * args[1].d
  /\ ret.n = 75 * ret.d

\* ------------------------------------------------------------------------
\* Properties of the score deltas (checked under SpecDelta)
\* ------------------------------------------------------------------------

\* the score of a snapshot on the 0-100 scale
ScoreOn100(synthesis) ==
  LET s == synthesis.overallAssessment.uxScore
  IN IF s.n <= 10 * s.d THEN [n |-> 10 * s.n, d |-> s.d] ELSE s

\* x = c - b, for rationals
IsDifference(x, c, b) == x.n * (c.d * b.d) = (c.n * b.d - b.n * c.d) * x.d

\* C12: compareSyntheses sets scoreDelta = normalizeScore(current score) -
\* normalizeScore(baseline score), and adjustedDelta = adjustedCurrent -
\* adjustedBaseline exactly when calculateAdjustedScore is defined for both
\* snapshots; when either snapshot has no test-infra issue adjustedDelta is
\* undefined.
C12_ScoreDeltas ==
  Compared =>
    /\ IsDifference(result.scoreDelta, ScoreOn100(current), ScoreOn100(baseline))
    /\ result.baselineScore = ScoreOn100(baseline)
    /\ result.currentScore = ScoreOn100(current)
    /\ (result.adjustedDelta # None) <=>
         (TestInfraSlots(baseline) # {} /\ TestInfraSlots(current) # {})
    /\ (result.adjustedDelta # None) =>
         IsDifference(result.adjustedDelta[1], calculateAdjustedScore(current)[1],
                      calculateAdjustedScore(baseline)[1])

\* both snapshots have a test-infra issue, and the adjusted delta is defined
\* and differs from the raw delta
C12_Witness ==
  /\ Compared
  /\ result.adjustedDelta # None
  /\ result.adjustedDelta[1].n # 0
  /\ ~RatEq(result.adjustedDelta[1], result.scoreDelta)

\* ------------------------------------------------------------------------
\* Properties of generateScoreContext (checked under SpecContext)
\* ------------------------------------------------------------------------

ContextMade == pc = "generateScoreContext"

\* C13: generateScoreContext returns exactly "No meaningful changes between
\* runs" when resolvedIssues, newIssues, persistingVariants and regressions
\* are all empty, whatever scoreDelta and persistingIssues are, and never
\* returns that string when any of the four is non-empty.
C13_NoChangesMessage ==
  ContextMade =>
    (ret = "No meaningful changes between runs"
       <=> /\ args[1].resolvedIssues = <<>>
           /\ args[1].newIssues = <<>>
           /\ args[1].persistingVariants = <<>>
           /\ args[1].regressions = <<>>)

\* the four lists are empty while scoreDelta is negative and a persisting
\* issue exists: the no-changes message is returned
C13_Witness ==
  /\ ContextMade
  /\ ret = "No meaningful changes between runs"
  /\ args[1].scoreDelta.n < 0
  /\ args[1].persistingIssues # <<>>

\* the number of P0 issues in a list
CountP0(issues) == Cardinality({k \in 1..Len(issues) : issues[k].severity = "P0"})

\* a clause: what it counts and the count
Clause(kind, count) == [kind |-> kind, count |-> count]

\* the clause, or nothing, as a list
ClauseIf(condition, kind, count) == IF condition THEN <<Clause(kind, count)>> ELSE <<>>

\* The clauses of the context line of a result, in their order
ClausesOf(r) ==
  ClauseIf(r.scoreDelta.n > 0 /\ CountP0(r.resolvedIssues) # 0,
           "resolved-P0", CountP0(r.resolvedIssues))
    \o ClauseIf(r.scoreDelta.n < 0 /\ CountP0(r.newIssues) # 0,
                "new-P0", CountP0(r.newIssues))
    \o ClauseIf(r.scoreDelta.n < 0 /\ Len(r.regressions) # 0,
                "regression", Len(r.regressions))
    \o ClauseIf(r.persistingVariants # <<>>, "reworded", Len(r.persistingVariants))

\* the words of a clause
ClauseText(c) ==
  LET n == ToString(c.count)
      s == IF c.count = 1 THEN "" ELSE "s"
  IN CASE c.kind = "resolved-P0" -> n \o " P0 issue" \o s \o " resolved"
       [] c.kind = "new-P0" -> n \o " new P0 issue" \o s \o " introduced"
       [] c.kind = "regression" -> n \o " regression" \o s
       [] c.kind = "reworded" -> n \o " issue" \o s \o " reworded but not resolved"

\* the clause texts joined with "; "
RECURSIVE JoinedClauses(_)
JoinedClauses(clauses) ==
  IF clauses = <<>> THEN ""
  ELSE ClauseText(clauses[1])
         \o (IF Len(clauses) = 1 THEN "" ELSE "; " \o JoinedClauses(Tail(clauses)))

\* the kinds of the clauses of a list
KindsOf(clauses) == {clauses[k].kind : k \in 1..Len(clauses)}

\* C14: when some partition is non-empty, generateScoreContext joins with
\* "; " these clauses in this order: the resolved-P0 count only if
\* scoreDelta > 0 and the count is nonzero; the new-P0 count and then the
\* regression count only if scoreDelta < 0 and each only if nonzero; the
\* reworded count whenever persistingVariants is non-empty.  No clause
\* states a zero count, and the resolved-P0 clause never occurs together
\* with the new-P0 or the regression clause.
C14_ContextClauses ==
  (/\ ContextMade
   /\ \/ args[1].resolvedIssues # <<>>
      \/ args[1].newIssues # <<>>
      \/ args[1].persistingVariants # <<>>
      \/ args[1].regressions # <<>>) =>
    /\ ret = JoinedClauses(ClausesOf(args[1]))
    /\ \A k \in 1..Len(ClausesOf(args[1])) : ClausesOf(args[1])[k].count > 0
    /\ "resolved-P0" \in KindsOf(ClausesOf(args[1]))
         => KindsOf(ClausesOf(args[1])) \cap {"new-P0", "regression"} = {}

\* a negative delta with two new P0 issues, one regression and two variants:
\* three clauses in order
C14_Witness ==
  /\ ContextMade
  /\ ret = "2 new P0 issues introduced; 1 regression; 2 issues reworded but not resolved"
  /\ CountP0(args[1].resolvedIssues) > 0

\* ------------------------------------------------------------------------
\* Properties of generateStableId (checked under SpecStableId)
\* ------------------------------------------------------------------------

StableIdsMade == pc = "generateStableIdAgain"

NormalOf(s) == trim(toLowerCase(s))

SameAfterNormalising ==
  NormalOf(args[1]) = NormalOf(args[3]) /\ NormalOf(args[2]) = NormalOf(args[4])

IsStableIdShape(id) ==
  /\ Len(id) = 12
  /\ SubSeq(id, 1, 4) = QUX
  /\ \A i \in 5..12 : \E k \in 1..16 : id[i] = HexDigits[k]

\* the id of the call number k (1 or 2) of the run
IdOfCall(k) == ret[k]

CallIs(k, title, discriminator) ==
  NormalOf(args[2 * k - 1]) = title /\ NormalOf(args[2 * k]) = discriminator

\* ids of sha256 as Node's crypto module computes them
KnownIds ==
  \A k \in 1..2 :
    /\ CallIs(k, <<"s","l","o","w"," ","l","o","a","d","i","n","g">>, <<"p","e","r","f","o","r","m","a","n","c","e">>)
         => IdOfCall(k) = <<"Q","U","X","-","3","6","b","3","d","f","a","3">>
    /\ CallIs(k, <<"s","l","o","w"," ","l","o","a","d","i","n","g">>, <<"v","i","d","e","o">>)
         => IdOfCall(k) = <<"Q","U","X","-","d","0","d","9","7","6","b","a">>
    /\ CallIs(k, <<"s","l","o","w"," ","l","o","a","d","i","n","g">>, <<"l","i","z">>)
         => IdOfCall(k) = <<"Q","U","X","-","d","1","d","2","2","9","7","f">>
    /\ CallIs(k, <<"s","l","o","w"," ","l","o","a","d","i","n","g">>, <<"b","k","h","n">>)
         => IdOfCall(k) = <<"Q","U","X","-","d","1","d","2","2","9","7","f">>
    /\ CallIs(k, <<"l","o","g","i","n"," ","b","u","t","t","o","n"," ","b","r","o","k","e","n">>, <<"f","u","n","c","t","i","o","n","a","l">>)
         => IdOfCall(k) = <<"Q","U","X","-","4","3","b","5","4","a","4","e">>
    /\ CallIs(k, <<"s","i","g","n","u","p"," ","f","o","r","m"," ","m","i","s","s","i","n","g">>, <<"f","u","n","c","t","i","o","n","a","l">>)
         => IdOfCall(k) = <<"Q","U","X","-","f","3","a","7","6","3","5","8">>

\* C15 as stated: two calls whose inputs are equal after lowercasing and
\* trimming return the same "QUX-" + 8 hex digits id, and for the same title
\* two discriminators that differ after lowercasing and trimming return
\* different ids.
C15_DiscriminatorsNeverCollide ==
  StableIdsMade =>
    /\ IsStableIdShape(ret[1]) /\ IsStableIdShape(ret[2])
    /\ SameAfterNormalising => ret[1] = ret[2]
    /\ (args[1] = args[3] /\ NormalOf(args[2]) # NormalOf(args[4])) => ret[1] # ret[2]

\* C15, amended: two calls whose inputs are equal after lowercasing and
\* trimming return the same "QUX-" + 8 hex digits id, the first 32 bits of
\* the SHA-256 of "title:discriminator"; 'performance' and 'video' give
\* different ids for 'Slow loading', while 'liz' and 'bkhn' give the same
\* one, so different discriminators do not always give different ids.
C15_StableIdOfNormalisedInputs ==
  StableIdsMade =>
    /\ IsStableIdShape(ret[1]) /\ IsStableIdShape(ret[2])
    /\ SameAfterNormalising => ret[1] = ret[2]
    /\ KnownIds

\* two discriminators that differ after lowercasing and trimming got the
\* same id for the same title
C15_Witness ==
  /\ StableIdsMade
  /\ args[1] = args[3]
  /\ NormalOf(args[2]) # NormalOf(args[4])
  /\ ret[1] = ret[2]

\* ------------------------------------------------------------------------
\* Properties of jaccardSimilarity (checked under SpecJaccard)
\* ------------------------------------------------------------------------

JaccardMade == pc = "jaccardSimilarityReversed"

\* C16: jaccardSimilarity(a, b) is a number in [0, 1], it is symmetric,
\* jaccardSimilarity(a, a) = 1, and it is 1 when both token sets are empty, 0
\* when exactly one is empty, and otherwise the size of the intersection of
\* the token sets over the size of their union.
C16_JaccardSimilarity ==
  JaccardMade =>
    LET A == NewSet(split(normalizeTitle(args[1])))
        B == NewSet(split(normalizeTitle(args[2])))
    IN /\ RatLe(RatInt(0), ret[1]) /\ RatLe(ret[1], RatInt(1))
       /\ RatEq(ret[1], ret[2])
       /\ args[1] = args[2] => RatEq(ret[1], RatInt(1))
       /\ (A = {} /\ B = {}) => RatEq(ret[1], RatInt(1))
       /\ ((A = {}) # (B = {})) => RatEq(ret[1], RatInt(0))
       /\ (A # {} /\ B # {})
            => RatEq(ret[1], Rat(Cardinality(A \cap B), Cardinality(A \cup B)))

\* two different titles with some but not all words in common were compared
C16_Witness ==
  /\ JaccardMade
  /\ args[1] # args[2]
  /\ RatLt(RatInt(0), ret[1])
  /\ RatLt(ret[1], RatInt(1))

\* ------------------------------------------------------------------------
\* Properties of normalizeTitle (checked under SpecTitles)
\* ------------------------------------------------------------------------

TitlesNormalized == pc = "normalizeTitle"

\* the canonical titles of the wording sets
CanonicalTitles == {<<"l","o","g","i","n"," ","s","l","o","w">>, <<"n","o","t"," ","a","c","c","e","s","s","i","b","l","e"," ","n","a","v">>, <<>>}

RECURSIVE DropLeadingFillers(_)
DropLeadingFillers(words) ==
  IF words # <<>> /\ words[1] \in FILLER_ADVERBS
  THEN DropLeadingFillers(Tail(words))
  ELSE words

\* the title starts with filler adverbs and a severity marker follows them
MarkerBehindFiller(title) ==
  LET words == split(toLowerCase(title))
      rest == join(DropLeadingFillers(words))
  IN /\ words # <<>>
     /\ words[1] \in FILLER_ADVERBS
     /\ StripSeverityPrefix(rest) # rest

\* C17 as stated: two titles that differ only in case, whitespace, severity
\* prefix, filler adverbs or synonym choice normalize to the same string and
\* have jaccardSimilarity 1.
C17_VariantsNormalizeAlike ==
  TitlesNormalized =>
    /\ ret[1] = ret[2]
    /\ RatEq(ret[3], RatInt(1))

\* C17, amended: normalizeTitle strips one leading severity marker,
\* lowercases, drops the filler adverbs, maps the synonym keys and joins with
\* single spaces, so two titles that differ only in case, whitespace, severity
\* prefix, filler adverbs or synonym choice normalize to the same string and
\* have jaccardSimilarity 1, provided no filler adverb stands before a
\* severity marker: the marker is looked for before the fillers are dropped,
\* and a marker behind a filler stays in the normalized title.
C17_VariantsNormalizeAlikeUnlessFillerLeads ==
  TitlesNormalized =>
    /\ (~MarkerBehindFiller(args[1]) /\ ~MarkerBehindFiller(args[2]))
         => /\ ret[1] = ret[2]
            /\ ret[1] \in CanonicalTitles
            /\ RatEq(ret[3], RatInt(1))
    /\ \A i \in 1..2 : MarkerBehindFiller(args[i]) => ret[i] \notin CanonicalTitles

\* two different titles, one with a marker and one without, got the same
\* non-empty normalized title
C17_Witness ==
  /\ TitlesNormalized
  /\ args[1] # args[2]
  /\ StripSeverityPrefix(args[1]) # args[1]
  /\ StripSeverityPrefix(args[2]) = args[2]
  /\ ret[1] = ret[2]
  /\ ret[1] # <<>>

\* ------------------------------------------------------------------------
\* Frame of the comparison (checked under SpecRepeat)
\* ------------------------------------------------------------------------

\* no step changes a snapshot
InputsKept == baseline' = baseline /\ current' = current

\* the second invocation returned what the first one of the same function
\* and the same options returned
RepeatsAgree ==
  /\ (pc = "matchIssuesAgain" /\ ret[1].call = "matchIssues")
       => matchOut = ret[1].matchOut
  /\ (pc = "compareSynthesesAgain" /\ ret[1].call = "compareSyntheses"
        /\ options = ret[1].options)
       => result = ret[1].result
  /\ (pc = "matchIssuesAgain" /\ ret[1].call = "compareSyntheses")
       => result = ret[1].result
  /\ (pc = "compareSynthesesAgain" /\ ret[1].call = "matchIssues")
       => matchOut = ret[1].matchOut

MissingSeverity(synthesis) ==
  \E k \in DOMAIN AllIssues(synthesis) :
    AllIssues(synthesis)[k].severity \notin DOMAIN SEVERITY_ORDER

\* calculateAdjustedScore returned a number from weights that count an issue
\* without severity as 0
CoercedWeight ==
  /\ pc = "calculateAdjustedScore"
  /\ MissingSeverity(baseline)
  /\ adjusted # None

\* compareSyntheses returned a result whose histogram has a bucket beside P0,
\* P1 and P2, or that calls a pair with a missing severity 'unchanged'
CoercedComparison ==
  /\ pc = "compareSyntheses"
  /\ \/ DOMAIN result.severityDistribution.baseline # {"P0", "P1", "P2"}
     \/ DOMAIN result.severityDistribution.current # {"P0", "P1", "P2"}
     \/ \E k \in DOMAIN result.persistingIssues :
          /\ result.persistingIssues[k].severityChange = "unchanged"
          /\ result.persistingIssues[k].baselineSeverity
               \notin DOMAIN SEVERITY_ORDER

\* C19: an issue whose severity is missing makes the comparison core fail:
\* compareSyntheses and calculateAdjustedScore do not return a normal result
\* in which the missing severity was coerced to weight 0, to 'unchanged' or to
\* an extra histogram bucket.
C19_MissingSeverityNeverCoerced ==
  /\ ~CoercedWeight
  /\ ~CoercedComparison
  /\ (pc = "compareSyntheses") => (~MissingSeverity(baseline) /\ ~MissingSeverity(current))

\* ------------------------------------------------------------------------
\* Properties of runCompare (checked under SpecCommand)
\* ------------------------------------------------------------------------

CommandRan == pc = "runCompare"

\* the position of --variant-threshold in the command line (0: not given)
OptionAt ==
  IF \E i \in 1..Len(args[1]) : args[1][i] = <<"-","-","v","a","r","i","a","n","t","-","t","h","r","e","s","h","o","l","d">>
  THEN CHOOSE i \in 1..Len(args[1]) : args[1][i] = <<"-","-","v","a","r","i","a","n","t","-","t","h","r","e","s","h","o","l","d">>
  ELSE 0

\* The texts that are numbers, and the number each one is
Numbers ==
  {<<<<"0",".","5">>, Rat(1, 2)>>, <<<<"0">>, Rat(0, 1)>>, <<<<"1">>, Rat(1, 1)>>,
   <<<<".","2","5">>, Rat(1, 4)>>, <<<<"1","e","-","1">>, Rat(1, 10)>>, <<<<"1",".","5">>, Rat(3, 2)>>,
   <<<<"-","0",".","1">>, Rat(0 - 1, 10)>>, <<<<"2">>, Rat(2, 1)>>,
   <<<<"I","n","f","i","n","i","t","y">>, Rat(1, 0)>>}

\* The texts that are no numbers but start with one
NumbersWithTail == {<<<<"0",".","5","a","b","c">>, Rat(1, 2)>>, <<<<"1","x">>, Rat(1, 1)>>}

InUnitInterval(r) == RatLe(RatInt(0), r) /\ RatLe(r, RatInt(1))

\* the value behind the option is missing, not one of the numbers given, or a
\* number below 0 or above 1
BadValue(numbers) ==
  /\ OptionAt > 0
  /\ \/ OptionAt = Len(args[1])
     \/ /\ OptionAt < Len(args[1])
        /\ \A p \in numbers : p[1] = args[1][OptionAt + 1] => ~InUnitInterval(p[2])

RejectedWhileParsing ==
  /\ ret.status = 1
  /\ ret.logged = ThresholdMessage
  /\ ret.loaded = 0
  /\ ret.invoked = None

\* compareSyntheses was invoked with no variantThreshold or one in [0, 1]
InvokedInRange ==
  ret.invoked # None =>
    \/ ret.invoked[1] = None
    \/ InUnitInterval(ret.invoked[1][1])

\* C20 as stated: runCompare rejects a --variant-threshold value that is
\* missing, not a number, below 0 or above 1 by logging an error and exiting
\* with status 1 during argument parsing, before any synthesis file is loaded;
\* compareSyntheses is only invoked with a variantThreshold in [0, 1] or none.
C20_BadThresholdRejected ==
  CommandRan =>
    /\ BadValue(Numbers) => RejectedWhileParsing
    /\ InvokedInRange

\* C20, amended: runCompare rejects a --variant-threshold value that is
\* missing, that does not start with a number, or whose leading number is
\* below 0 or above 1, by logging an error and exiting with status 1 during
\* argument parsing, before any synthesis file is loaded; a value that starts
\* with a number in [0, 1] is accepted as that number whatever follows it
\* ('0.5abc' is 0.5), and compareSyntheses is only invoked with a
\* variantThreshold in [0, 1] or none.
C20_BadLeadingNumberRejected ==
  CommandRan =>
    /\ BadValue(Numbers \cup NumbersWithTail) <=> RejectedWhileParsing
    /\ InvokedInRange
    /\ (ret.invoked # None /\ OptionAt > 0)
         => \E p \in Numbers \cup NumbersWithTail :
              /\ p[1] = args[1][OptionAt + 1]
              /\ ret.invoked[1] # None
              /\ RatEq(ret.invoked[1][1], p[2])
    /\ (ret.invoked # None /\ OptionAt = 0) => ret.invoked[1] = None

\* a value above 1 was rejected although both synthesis files are there
C20_Witness ==
  /\ CommandRan
  /\ OptionAt > 0
  /\ OptionAt < Len(args[1])
  /\ args[1][OptionAt + 1] = <<"1",".","5">>
  /\ args[2] # None
  /\ args[3] # None
  /\ RejectedWhileParsing

\* ------------------------------------------------------------------------
\* Properties of the passes of matchIssues and of the variant pass (checked
\* under SpecGreedy)
\* ------------------------------------------------------------------------

\* the fuzzy acceptance criterion on two issues
PassesFuzzy(b, c) ==
  \/ SimAbove(b, c, 6, 10)
  \/ SimAbove(b, c, 4, 10) /\ Agree(b, c)

\* the matched pairs that hold baseline position bref and current position cref
PairsOf(m, bref, cref) ==
  {k \in 1..Len(m.matched) :
     m.matched[k].baseline.ref = bref /\ m.matched[k].current.ref = cref}

\* C21: every exact-id match has identical baseline and current ids that both
\* start with "QUX-", and two issues that share an identical id without the
\* "QUX-" prefix are matched only if their titles pass the fuzzy criterion
\* (and then by fuzzy); otherwise they stay unmatched.
C21_LegacyIdsOnlyFuzzy ==
  Matched =>
    /\ \A k \in 1..Len(matchOut.matched) :
         matchOut.matched[k].method = "exact-id"
           => /\ matchOut.matched[k].baseline.id = matchOut.matched[k].current.id
              /\ startsWith(matchOut.matched[k].baseline.id, QUX)
              /\ startsWith(matchOut.matched[k].current.id, QUX)
    /\ \A b \in Range(BaselineIssues), c \in Range(CurrentIssues) :
         (b.id = c.id /\ ~startsWith(b.id, QUX))
           => \A k \in PairsOf(matchOut, b.ref, c.ref) :
                matchOut.matched[k].method = "fuzzy" /\ PassesFuzzy(b, c)
    /\ (Len(BaselineIssues) = 1 /\ Len(CurrentIssues) = 1
          /\ BaselineIssues[1].id = CurrentIssues[1].id
          /\ ~startsWith(BaselineIssues[1].id, QUX))
         => IF PassesFuzzy(BaselineIssues[1], CurrentIssues[1])
            THEN Len(matchOut.matched) = 1 /\ matchOut.matched[1].method = "fuzzy"
            ELSE LonePairUnmatched(matchOut)

\* one legacy id on both sides: the pair with similar titles is matched by
\* fuzzy and the baseline issue with the other title stays unmatched
C21_Witness ==
  /\ Matched
  /\ \E k \in 1..Len(matchOut.matched) :
       /\ matchOut.matched[k].method = "fuzzy"
       /\ matchOut.matched[k].baseline.id = matchOut.matched[k].current.id
  /\ \E u \in Range(matchOut.unmatchedBaseline) :
       /\ ~startsWith(u.id, QUX)
       /\ \E c \in Range(CurrentIssues) : c.id = u.id

\* the positions pass 1 consumed on each side
ExactBaselineRefs(m) ==
  {m.matched[k].baseline.ref : k \in {j \in 1..Len(m.matched) : m.matched[j].method = "exact-id"}}

ExactCurrentRefs(m) ==
  {m.matched[k].current.ref : k \in {j \in 1..Len(m.matched) : m.matched[j].method = "exact-id"}}

\* the fuzzy matches of m
FuzzyOf(m) == {k \in 1..Len(m.matched) : m.matched[k].method = "fuzzy"}

\* the fuzzy match k is at least as similar as the pair (b, c)
AsSimilarAs(m, k, b, c) ==
  RatLe(SimOf(b, c), SimOf(m.matched[k].baseline, m.matched[k].current))

\* C22: for every baseline/current pair unconsumed by pass 1 that satisfies
\* the fuzzy acceptance criterion with similarity s, either that pair is
\* returned as a fuzzy match or at least one of its two issues is returned in
\* a fuzzy match whose similarity is >= s; hence no pair of unmatchedBaseline
\* x unmatchedCurrent satisfies the acceptance criterion.
C22_GreedyHonoursSimilarity ==
  Matched =>
    /\ \A b \in Range(BaselineIssues), c \in Range(CurrentIssues) :
         (/\ b.ref \notin ExactBaselineRefs(matchOut)
          /\ c.ref \notin ExactCurrentRefs(matchOut)
          /\ PassesFuzzy(b, c))
           => \E k \in FuzzyOf(matchOut) :
                /\ \/ matchOut.matched[k].baseline.ref = b.ref
                   \/ matchOut.matched[k].current.ref = c.ref
                /\ AsSimilarAs(matchOut, k, b, c)
    /\ \A b \in Range(matchOut.unmatchedBaseline), c \in Range(matchOut.unmatchedCurrent) :
         ~PassesFuzzy(b, c)

\* an accepted pair lost its baseline issue to a strictly more similar pair
\* and its current issue stayed unmatched
C22_Witness ==
  /\ Matched
  /\ \E b \in Range(BaselineIssues), c \in Range(matchOut.unmatchedCurrent) :
       /\ PassesFuzzy(b, c)
       /\ \E k \in FuzzyOf(matchOut) :
            /\ matchOut.matched[k].baseline.ref = b.ref
            /\ RatLt(SimOf(b, c), SimOf(b, matchOut.matched[k].current))

\* a candidate or an emitted pair: the two positions and the similarity
PairOf(b, c) == [b |-> b.ref, c |-> c.ref, sim |-> SimOf(b, c)]

\* the fuzzy matches of m in the order of the matched list
FuzzyEmitted(m) ==
  LET fuzzy == SelectSeq(m.matched, LAMBDA p : p.method = "fuzzy")
  IN [k \in 1..Len(fuzzy) |-> PairOf(fuzzy[k].baseline, fuzzy[k].current)]

\* the candidates of the fuzzy pass
FuzzyCandidatePairs(m) ==
  {PairOf(b, c) : <<b, c>> \in
     {<<b, c>> \in Range(BaselineIssues) \X Range(CurrentIssues) :
        /\ b.ref \notin ExactBaselineRefs(m)
        /\ c.ref \notin ExactCurrentRefs(m)
        /\ PassesFuzzy(b, c)}}

\* the variants of a result in the order of persistingVariants
VariantEmitted(r) ==
  [k \in 1..Len(r.persistingVariants) |->
     PairOf(r.persistingVariants[k].similarTo, r.persistingVariants[k].issue)]

\* the candidates of the variant pass
VariantCandidatePairs(m) ==
  {PairOf(b, c) : <<b, c>> \in
     {<<b, c>> \in Range(m.unmatchedBaseline) \X Range(m.unmatchedCurrent) :
        AtLeastThreshold(b, c)}}

\* x comes before y with the baseline index major and the current index minor
BaselineMajor(x, y) == x.b < y.b \/ (x.b = y.b /\ x.c < y.c)

\* x comes before y with the current index major and the baseline index minor
CurrentMajor(x, y) == x.c < y.c \/ (x.c = y.c /\ x.b < y.b)

\* Among candidates of equal similarity the earlier one in the order Before
\* is considered first: when a pair is emitted, every equally similar
\* candidate before it has already lost one of its sides to an emitted pair.
TiesInOrder(emitted, cands, Before(_, _)) ==
  \A k \in 1..Len(emitted) :
    \A x \in cands :
      (RatEq(x.sim, emitted[k].sim) /\ Before(x, emitted[k]))
        => \E j \in 1..(k - 1) : emitted[j].b = x.b \/ emitted[j].c = x.c

\* C23 (as stated): in the fuzzy pass of matchIssues and in the variant pass
\* of compareSyntheses alike, candidates of equal similarity are processed
\* baseline-index-major and current-index-minor: the one with the lower
\* baseline index, then the lower current index, is considered and emitted
\* first.
C23_TiesBaselineMajor ==
  /\ Matched => TiesInOrder(FuzzyEmitted(matchOut), FuzzyCandidatePairs(matchOut),
                            BaselineMajor)
  /\ Compared => TiesInOrder(VariantEmitted(result), VariantCandidatePairs(MatchOfInputs),
                             BaselineMajor)

\* C23 (amended): candidates of equal similarity are processed in candidate
\* generation order, which is baseline-index-major and current-index-minor
\* in the fuzzy pass of matchIssues, and current-index-major and
\* baseline-index-minor in the variant pass of compareSyntheses.
C23_TiesInGenerationOrder ==
  /\ Matched => TiesInOrder(FuzzyEmitted(matchOut), FuzzyCandidatePairs(matchOut),
                            BaselineMajor)
  /\ Compared => TiesInOrder(VariantEmitted(result), VariantCandidatePairs(MatchOfInputs),
                             CurrentMajor)

\* two variants of equal similarity, the first with the lower current index
\* and the higher baseline index
C23_Witness ==
  /\ Compared
  /\ Len(result.persistingVariants) >= 2
  /\ RatEq(VariantEmitted(result)[1].sim, VariantEmitted(result)[2].sim)
  /\ VariantEmitted(result)[1].c < VariantEmitted(result)[2].c
  /\ VariantEmitted(result)[1].b > VariantEmitted(result)[2].b

\* two fuzzy matches of equal similarity, the first with the lower baseline
\* index and the higher current index
FuzzyTieReached ==
  /\ Matched
  /\ Len(FuzzyEmitted(matchOut)) >= 2
  /\ RatEq(FuzzyEmitted(matchOut)[1].sim, FuzzyEmitted(matchOut)[2].sim)
  /\ FuzzyEmitted(matchOut)[1].b < FuzzyEmitted(matchOut)[2].b
  /\ FuzzyEmitted(matchOut)[1].c > FuzzyEmitted(matchOut)[2].c

\* C24: every fuzzy match carries confidence = round(similarity * 100), an
\* integer between 40 and 100, and every exact-id match carries no
\* confidence; compareSyntheses copies method and confidence unchanged into
\* matchMethod and matchConfidence of the corresponding persistingIssues
\* entry.
C24_ConfidenceOfMatches ==
  /\ Matched =>
       \A k \in 1..Len(matchOut.matched) :
         LET p == matchOut.matched[k]
         IN IF p.method = "fuzzy"
            THEN /\ p.confidence = Some(Percent(p.baseline, p.current))
                 /\ p.confidence[1] \in 40..100
            ELSE p.method = "exact-id" /\ p.confidence = None
  /\ Compared =>
       LET m == MatchOfInputs
       IN /\ Len(result.persistingIssues) = Len(m.matched)
          /\ \A k \in 1..Len(m.matched) :
               /\ result.persistingIssues[k].baselineRef = m.matched[k].baseline.ref
               /\ result.persistingIssues[k].currentRef = m.matched[k].current.ref
               /\ result.persistingIssues[k].matchMethod = m.matched[k].method
               /\ result.persistingIssues[k].matchConfidence = m.matched[k].confidence

\* a comparison reports an exact-id entry without confidence and a fuzzy
\* entry of confidence 50
C24_Witness ==
  /\ Compared
  /\ \E e \in Range(result.persistingIssues) :
       e.matchMethod = "exact-id" /\ e.matchConfidence = None
  /\ \E e \in Range(result.persistingIssues) :
       e.matchMethod = "fuzzy" /\ e.matchConfidence = Some(50)

\* the positions of the issues with the id, in list order
RefsOfId(issues, id) ==
  LET same == SelectSeq(issues, LAMBDA x : x.id = id)
  IN [k \in 1..Len(same) |-> same[k].ref]

\* the exact-id matches of the id, in the order of the matched list
ExactPairsOfId(m, id) ==
  SelectSeq(m.matched, LAMBDA p : p.method = "exact-id" /\ p.baseline.id = id)

\* the smaller of two numbers
Min(x, y) == IF x <= y THEN x ELSE y

\* the "QUX-" ids of the two snapshots
StableIdsOfInputs ==
  {x.id : x \in {y \in Range(BaselineIssues) \cup Range(CurrentIssues) : startsWith(y.id, QUX)}}

\* C25: when the same "QUX-" id occurs k times in baseline and m times in
\* current, pass 1 produces exactly min(k, m) exact-id matches for that id,
\* pairing the i-th baseline occurrence with the i-th current occurrence in
\* list order; surplus occurrences are left to the fuzzy pass.
C25_RepeatedIdsPairedInOrder ==
  Matched =>
    \A id \in StableIdsOfInputs :
      LET bs == RefsOfId(BaselineIssues, id)
          cs == RefsOfId(CurrentIssues, id)
          ps == ExactPairsOfId(matchOut, id)
      IN /\ Len(ps) = Min(Len(bs), Len(cs))
         /\ \A i \in 1..Len(ps) :
              ps[i].baseline.ref = bs[i] /\ ps[i].current.ref = cs[i]
         /\ \A p \in Range(matchOut.matched) :
              (\/ \E i \in (Len(ps) + 1)..Len(bs) : p.baseline.ref = bs[i]
               \/ \E i \in (Len(ps) + 1)..Len(cs) : p.current.ref = cs[i])
                => p.method = "fuzzy" /\ PassesFuzzy(p.baseline, p.current)

\* one "QUX-" id twice in baseline and once in current: the first baseline
\* occurrence is paired by exact id and the second by a fuzzy match
C25_Witness ==
  /\ Matched
  /\ \E id \in StableIdsOfInputs :
       /\ Len(RefsOfId(BaselineIssues, id)) = 2
       /\ Len(RefsOfId(CurrentIssues, id)) = 1
       /\ Len(ExactPairsOfId(matchOut, id)) = 1
       /\ \E p \in Range(matchOut.matched) :
            /\ p.method = "fuzzy"
            /\ p.baseline.ref = RefsOfId(BaselineIssues, id)[2]

\* C26: every persistingVariants pair has similarity <= 0.6 (similarityScore
\* <= 60) and does not satisfy the relaxed fuzzy criterion; consequently
\* persistingVariants is empty whenever variantThreshold > 0.6.
C26_VariantsBelowPrimaryThresholds ==
  Compared =>
    /\ \A v \in Range(result.persistingVariants) :
         /\ ~SimAbove(v.similarTo, v.issue, 6, 10)
         /\ v.similarityScore <= 60
         /\ ~(SimAbove(v.similarTo, v.issue, 4, 10) /\ Agree(v.similarTo, v.issue))
    /\ RatLt(Rat(6, 10), ThresholdInForce) => result.persistingVariants = <<>>

\* a variant above 0.4 whose two issues agree in category and differ in
\* severity
C26_Witness ==
  /\ Compared
  /\ \E v \in Range(result.persistingVariants) :
       /\ SimAbove(v.similarTo, v.issue, 4, 10)
       /\ v.similarTo.category # undefined
       /\ v.similarTo.category = v.issue.category
       /\ v.similarTo.severity # v.issue.severity

\* under the threshold 0.7 two issues of similarity 1/2 are reported as
\* resolved and new
HighThresholdReached ==
  /\ Compared
  /\ options = Some(Rat(7, 10))
  /\ \E b \in Range(result.resolvedIssues), c \in Range(result.newIssues) :
       SimAbove(b, c, 4, 10)

\* the numbers of the sequence rise strictly
Ascending(nums) == \A i, j \in 1..Len(nums) : i < j => nums[i] < nums[j]

\* the numbers of the sequence never rise
NonIncreasing(nums) == \A i, j \in 1..Len(nums) : i < j => nums[i] >= nums[j]

\* The issues are issues of the flattened input in the order of that input,
\* which lists the consensus issues, then the video-only issues, then the
\* model-unique issues
KeepsInputOrder(issues, flattened) ==
  /\ \A k \in 1..Len(issues) :
       issues[k].ref \in 1..Len(flattened) /\ issues[k] = flattened[issues[k].ref]
  /\ Ascending([k \in 1..Len(issues) |-> issues[k].ref])
  /\ \A i, j \in 1..Len(issues) :
       i < j => ListRank(issues[i].type) <= ListRank(issues[j].type)

\* the exact-id entries come first, by rising baseline position, and the
\* fuzzy entries follow, by falling confidence
ExactThenFuzzy(methods, baselineRefs, confidences) ==
  LET exact == {k \in 1..Len(methods) : methods[k] = "exact-id"}
      fuzzy == {k \in 1..Len(methods) : methods[k] = "fuzzy"}
  IN /\ exact \cup fuzzy = 1..Len(methods)
     /\ \A i \in exact, j \in fuzzy : i < j
     /\ \A i, j \in exact : i < j => baselineRefs[i] < baselineRefs[j]
     /\ \A i, j \in fuzzy : i < j => confidences[i][1] >= confidences[j][1]

\* C27: the matched list (and persistingIssues) holds all exact-id matches
\* first, in ascending baseline position, then all fuzzy matches in
\* non-increasing confidence; persistingVariants is in non-increasing
\* similarityScore; unmatchedBaseline, unmatchedCurrent, resolvedIssues and
\* newIssues keep the order of the flattened input (consensus, video-only,
\* model-unique).
C27_OrderOfOutputs ==
  /\ Matched =>
       /\ ExactThenFuzzy([k \in 1..Len(matchOut.matched) |-> matchOut.matched[k].method],
                         [k \in 1..Len(matchOut.matched) |-> matchOut.matched[k].baseline.ref],
                         [k \in 1..Len(matchOut.matched) |-> matchOut.matched[k].confidence])
       /\ KeepsInputOrder(matchOut.unmatchedBaseline, BaselineIssues)
       /\ KeepsInputOrder(matchOut.unmatchedCurrent, CurrentIssues)
  /\ Compared =>
       /\ ExactThenFuzzy([k \in 1..Len(result.persistingIssues) |-> result.persistingIssues[k].matchMethod],
                         [k \in 1..Len(result.persistingIssues) |-> result.persistingIssues[k].baselineRef],
                         [k \in 1..Len(result.persistingIssues) |-> result.persistingIssues[k].matchConfidence])
       /\ NonIncreasing([k \in 1..Len(result.persistingVariants) |->
                           result.persistingVariants[k].similarityScore])
       /\ KeepsInputOrder(result.resolvedIssues, BaselineIssues)
       /\ KeepsInputOrder(result.newIssues, CurrentIssues)

\* an exact-id match of the second baseline issue listed before a fuzzy
\* match of the first
C27_Witness ==
  /\ Matched
  /\ Len(matchOut.matched) = 2
  /\ matchOut.matched[1].method = "exact-id"
  /\ matchOut.matched[2].method = "fuzzy"
  /\ matchOut.matched[1].baseline.ref > matchOut.matched[2].baseline.ref

\* two fuzzy matches of falling confidence, the more similar pair being the
\* later one of the input
FallingConfidenceReached ==
  /\ Matched
  /\ \E i, j \in 1..Len(matchOut.matched) :
       /\ i < j
       /\ matchOut.matched[i].method = "fuzzy"
       /\ matchOut.matched[j].method = "fuzzy"
       /\ matchOut.matched[i].confidence[1] > matchOut.matched[j].confidence[1]
       /\ matchOut.matched[i].baseline.ref > matchOut.matched[j].baseline.ref

\* two variants of falling similarityScore
FallingVariantsReached ==
  /\ Compared
  /\ \E i, j \in 1..Len(result.persistingVariants) :
       /\ i < j
       /\ result.persistingVariants[i].similarityScore
            > result.persistingVariants[j].similarityScore

\* resolved issues from two lists of the baseline, one of them model-unique
ResolvedAcrossListsReached ==
  /\ Compared
  /\ \E x, y \in Range(result.resolvedIssues) :
       x.type = "consensus" /\ y.type = "model-unique"

\* C28: the relaxed 0.4 threshold applies only when both issues come from
\* consensusIssues, so every fuzzy match in which the baseline or current
\* issue is video-only or model-unique has similarity > 0.6.
C28_RelaxedBoundOnlyInConsensus ==
  Matched =>
    \A p \in Range(matchOut.matched) :
      (/\ p.method = "fuzzy"
       /\ p.baseline.type # "consensus" \/ p.current.type # "consensus")
        => SimAbove(p.baseline, p.current, 6, 10)

\* a fuzzy match of a video-only baseline issue with a consensus issue
C28_Witness ==
  /\ Matched
  /\ \E p \in Range(matchOut.matched) :
       /\ p.method = "fuzzy"
       /\ p.baseline.type = "video-only"
       /\ p.current.type = "consensus"

\* a model-unique issue that the snapshot gives a category, and a consensus
\* issue of that category and of the same severity, of similarity 1/2, are
\* both left unmatched
UnmatchedOutsideConsensusReached ==
  /\ Matched
  /\ \E b \in Range(matchOut.unmatchedBaseline), c \in Range(matchOut.unmatchedCurrent) :
       /\ b.type = "model-unique"
       /\ c.type = "consensus"
       /\ SimAbove(b, c, 4, 10)
       /\ b.severity = c.severity
       /\ \E raw \in Range(baseline.modelUniqueIssues) :
            raw.title = b.title /\ raw.category = c.category

\* C29: with variantThreshold = 0 every pair left unmatched by matchIssues is
\* a variant candidate, so compareSyntheses returns exactly
\* min(|unmatchedBaseline|, |unmatchedCurrent|) persistingVariants and at
\* least one of resolvedIssues and newIssues is empty, even when the paired
\* titles share no token.
C29_ZeroThresholdPairsEverything ==
  (Compared /\ options = Some(Rat(0, 1))) =>
    LET m == MatchOfInputs
    IN /\ Len(result.persistingVariants)
            = Min(Len(m.unmatchedBaseline), Len(m.unmatchedCurrent))
       /\ result.resolvedIssues = <<>> \/ result.newIssues = <<>>

\* under the threshold 0 a variant of similarityScore 0 pairs two titles
\* that share no token, next to a resolved issue
C29_Witness ==
  /\ Compared
  /\ options = Some(Rat(0, 1))
  /\ result.resolvedIssues # <<>>
  /\ \E v \in Range(result.persistingVariants) :
       /\ v.similarityScore = 0
       /\ TokenSet(v.issue.title) \cap TokenSet(v.similarTo.title) = {}

\* ------------------------------------------------------------------------
\* The empty context line (checked under SpecContext)
\* ------------------------------------------------------------------------

\* no clause condition of the score delta holds for the result r
NoDeltaClause(r) ==
  \/ RatEq(r.scoreDelta, RatInt(0))
  \/ /\ RatLt(RatInt(0), r.scoreDelta)
     /\ \A i \in Range(r.resolvedIssues) : i.severity # "P0"
  \/ /\ RatLt(r.scoreDelta, RatInt(0))
     /\ \A i \in Range(r.newIssues) : i.severity # "P0"
     /\ r.regressions = <<>>

\* C30: generateScoreContext returns the empty string iff at least one of
\* resolvedIssues, newIssues, regressions is non-empty, persistingVariants is
\* empty, and no clause condition holds, i.e. scoreDelta = 0, or scoreDelta >
\* 0 with no resolved P0 issue, or scoreDelta < 0 with no new P0 issue and no
\* regression.
C30_EmptyContext ==
  ContextMade =>
    (ret = ""
       <=> /\ \/ args[1].resolvedIssues # <<>>
              \/ args[1].newIssues # <<>>
              \/ args[1].regressions # <<>>
           /\ args[1].persistingVariants = <<>>
           /\ NoDeltaClause(args[1]))

\* the empty string for a result whose score rose while only a P1 issue was
\* resolved and a P0 issue is new
C30_Witness ==
  /\ ContextMade
  /\ ret = ""
  /\ RatLt(RatInt(0), args[1].scoreDelta)
  /\ \E i \in Range(args[1].resolvedIssues) : i.severity = "P1"
  /\ \E i \in Range(args[1].newIssues) : i.severity = "P0"

====
